---- MODULE Spec2Model ----
(***************************************************************************)
(* Model of the Gen back end of the OpenCL compiler: the dependency-DAG    *)
(* list scheduler (gen_insn_scheduling.cpp), the code-generation retry     *)
(* loop (gen_program.cpp) and the per-lane block-IP scheme that linearizes *)
(* the control flow (doc "Unstructured Branches"), and the IR layer under  *)
(* it: wellFormed (ir/instruction.cpp), sortLabels and the basic blocks    *)
(* (ir/function.cpp).                                                      *)
(***************************************************************************)
EXTENDS Integers, Sequences, FiniteSets, TLC

VARIABLES
  \* ---- scheduler (gen_insn_scheduling.cpp) ----
  insns,        \* the Selection Instructions of the block, by identity (arena)
  insnList,     \* bb.insnList: the block's instruction list (sequence of identities)
  origList,     \* the instruction list as it was when the running pass was entered
  nodeInsn,     \* tracker.insnNodes: node k wraps instruction nodeInsn[k]
  refNum,       \* ScheduleDAGNode::refNum per node
  children,     \* ScheduleDAGNode::children per node (list of dependent nodes)
  retiredCycle, \* ScheduleDAGNode::retiredCycle per node
  ready,        \* SelectionScheduler::ready
  active,       \* SelectionScheduler::active
  cycle,        \* local "cycle" of scheduleDAG
  insnNum,      \* local "insnNum" of scheduleDAG (instructions left)
  policy,       \* SelectionScheduler::policy of the running pass
  simdWidth,    \* ctx.getSimdWidth()
  preSwitch,    \* OCL_PRE_ALLOC_INSN_SCHEDULE
  postSwitch,   \* OCL_POST_ALLOC_INSN_SCHEDULE
  spc,          \* position in the pipeline: pre, preLoop, post, postLoop, done
  \* ---- retry loop (gen_program.cpp) ----
  fnSimdWidth,  \* ir::Function::simdWidth of the kernel's function
  entryWidth,   \* fn->getSimdWidth() as read on entry of the running call
  codeGen,      \* loop index of compileKernel
  codeGenNum,   \* loop bound of compileKernel
  kernel,       \* local "kernel": 0 is NULL, k+1 the kernel built by strategy k
  tried,        \* strategies attempted by the running call, in order
  compilable,   \* strategies for which ctx->compileKernel() yields a kernel
  gbeDebug,     \* the build's GBE_DEBUG
  calls,        \* number of compileKernel calls started
  cpc,          \* position in compileKernel: idle, loop, check, returned, aborted
  \* ---- lanes (block IPs) ----
  succ,         \* retained control-flow edges: block -> set of successor blocks
  blockIP,      \* per-lane stored block identifier
  cur,          \* block the hardware thread is executing
  mask,         \* lanes activated at the head of block cur
  lastExec,     \* the last block executed: the lanes that ran it, their IPs before and after
  lpc,          \* position: head, body, done
  \* ---- IR well-formedness (ir/instruction.cpp) ----
  irProfile,    \* Function::profile of the owning function
  irInsn,       \* the instruction handed to wellFormed
  wfOk,         \* value returned by wellFormed
  wfWhy,        \* the reason string it left in whyNot
  wfOob,        \* a table of the function was read outside its bounds
  wpc,          \* position: idle, new, checked, aborted
  \* ---- function, basic blocks (ir/function.cpp) ----
  fnBlocks,     \* Function::blocks: per block, its list of instructions (identities)
  fnInsn,       \* the function's instruction pool: identity -> instruction
  fnLabels,     \* Function::labels: entry i+1 is the block of label i, 0 is NULL
  fnOp,         \* the last operation applied to the function
  fnSucc,       \* BasicBlock::successors of each block (positions in Function::blocks)
  fnPred,       \* BasicBlock::predecessors of each block
  \* ---- register allocation (spec 4.4) ----
  raVecs,       \* the Selection Vectors of the block, in list order
  raIval,       \* live interval of each virtual register: <<first, last>>
  raLoc,        \* physical slot of each virtual register, -1 while unassigned
  raFree,       \* free slots of the register file
  raAllocated,  \* vectors that were given a range of their own
  raWork,       \* registers the linear scan has still to place, in order
  raActive,     \* registers placed by the scan whose interval is not over
  raPc,         \* position: idle, vectors, scan, done, failed
  raSize,       \* slots of the register file
  \* ---- DependencyTracker::getIndex on one operand ----
  trReg,        \* the operand: a GenRegister, or a memory access by its bti
  trPolicy,     \* the policy of the scheduler that owns the tracker
  trWidth,      \* ctx.getSimdWidth()
  trIndex,      \* the index returned, -1 before the call
  trPc,         \* position: idle, new, indexed, asserted
  trDebug,      \* the build's GBE_DEBUG, as seen by the tracker
  \* ---- Program (backend/program.hpp) ----
  progKernels,  \* Program::kernels in iteration order: the kernel of each entry
  progID,       \* the ID handed to getKernel
  progKernel,   \* the kernel getKernel returned, 0 for NULL
  progNum,      \* the value getKernelNum returned
  progPc        \* position: idle, new, returned

schedVars == <<insns, insnList, origList, nodeInsn, refNum, children, retiredCycle,
               ready, active, cycle, insnNum, policy, simdWidth, preSwitch,
               postSwitch, spc>>
compVars == <<fnSimdWidth, entryWidth, codeGen, codeGenNum, kernel, tried,
              compilable, gbeDebug, calls, cpc>>
laneVars == <<succ, blockIP, cur, mask, lastExec, lpc>>
wfVars == <<irProfile, irInsn, wfOk, wfWhy, wfOob, wpc>>
fnVars == <<fnBlocks, fnInsn, fnLabels, fnOp, fnSucc, fnPred>>
irVars == <<wfVars, fnVars>>
raVars == <<raVecs, raIval, raLoc, raFree, raAllocated, raWork, raActive, raPc, raSize>>
trackVars == <<trReg, trPolicy, trWidth, trIndex, trPc, trDebug>>
progVars == <<progKernels, progID, progKernel, progNum, progPc>>
vars == <<schedVars, compVars, laneVars, irVars, raVars, trackVars, progVars>>

(***************************************************************************)
(* Bounds of the model.                                                    *)
(***************************************************************************)
MaxInsn == 3      \* instructions of a block after its label
NumRegs == 2      \* virtual registers of the selection (selection.getRegNum())

(***************************************************************************)
(* Program constants.                                                      *)
(***************************************************************************)
MAX_FLAG_REGISTER == 8
MAX_ACC_REGISTER == 1
GLOBAL_MEMORY == 0
LOCAL_MEMORY == 1
MAX_MEM_SYSTEM == 2
LocalBTI == 254          \* 0xfe, the binding table index of the local memory
GlobalBTI == 0

(***************************************************************************)
(* GenRegister operands of a Selection Instruction.                        *)
(*   file     "GRF", "ARF" (architecture register file) or "IMM"           *)
(*   physical reg.physical                                                 *)
(*   arf      reg.nr & 0xf0 of an ARF register: "null", "flag", "acc"     *)
(*   nr       reg.nr & 0x0f of an ARF register                             *)
(*   subnr    reg.subnr, in bytes                                          *)
(*   reg      reg.value.reg, the virtual register                          *)
(***************************************************************************)
Grf(r) == [file |-> "GRF", physical |-> FALSE, arf |-> "none", nr |-> 0,
           subnr |-> 0, reg |-> r]
Imm == [file |-> "IMM", physical |-> FALSE, arf |-> "none", nr |-> 0,
        subnr |-> 0, reg |-> 0]
NullReg == [file |-> "ARF", physical |-> TRUE, arf |-> "null", nr |-> 0,
            subnr |-> 0, reg |-> 0]
\* GenRegister::flag(nr, subnr): a physical UW flag register, subnr kept in bytes
FlagReg(nr, subnr) == [file |-> "ARF", physical |-> TRUE, arf |-> "flag",
                       nr |-> nr, subnr |-> subnr * 2, reg |-> 0]
\* GenRegister::acc()
AccReg == [file |-> "ARF", physical |-> TRUE, arf |-> "acc", nr |-> 0,
           subnr |-> 0, reg |-> 0]
\* GenRegister::uw1grf(ir::Register(r))
Uw1Grf(r) == Grf(r)

(***************************************************************************)
(* Selection Instructions.                                                 *)
(***************************************************************************)
MkInsn(op, dst, src, pred, phys, sub, fidx, acc, bti) ==
  [opcode |-> op, dst |-> dst, src |-> src, predicate |-> pred,
   physicalFlag |-> phys, flag |-> 0, subFlag |-> sub, flagIndex |-> fidx,
   accWrEnable |-> acc, function |-> bti]

Regs == 0 .. (NumRegs - 1)
NextReg(r) == (r + 1) % NumRegs

LabelInsn == MkInsn("LABEL", <<>>, <<>>, FALSE, TRUE, 0, 0, FALSE, 0)

\* the instructions the blocks of the model are made of
InsnPool ==
  {MkInsn("ADD", <<Grf(r)>>, <<Grf(r), Grf(NextReg(r))>>, FALSE, TRUE, 0, 0, FALSE, 0)
          : r \in Regs}
  \cup {MkInsn("CMP", <<NullReg>>, <<Grf(0), Imm>>, FALSE, TRUE, 0, 0, FALSE, 0)}
  \cup {MkInsn("SEL", <<Grf(NumRegs - 1)>>, <<Imm, Imm>>, TRUE, TRUE, 0, 0, FALSE, 0)}
  \cup {MkInsn("MACH", <<Grf(NumRegs - 1)>>, <<AccReg, Imm>>, FALSE, TRUE, 0, 0, TRUE, 0)}
  \cup {MkInsn("UNTYPED_READ", <<Grf(NumRegs - 1)>>, <<Grf(0)>>, FALSE, TRUE, 0, 0, FALSE, b)
          : b \in {GlobalBTI, LocalBTI}}
  \cup {MkInsn("UNTYPED_WRITE", <<>>, <<Grf(0), Grf(NumRegs - 1)>>, FALSE, TRUE, 0, 0, FALSE, b)
          : b \in {GlobalBTI, LocalBTI}}
  \cup {MkInsn("BARRIER", <<>>, <<>>, FALSE, TRUE, 0, 0, FALSE, 0)}
  \cup {MkInsn("WAIT", <<>>, <<>>, FALSE, TRUE, 0, 0, FALSE, 0)}
  \cup {MkInsn("JMPI", <<>>, <<Imm>>, TRUE, FALSE, 0, 0, FALSE, 0)}
  \cup {MkInsn("EOT", <<>>, <<Grf(0)>>, FALSE, TRUE, 0, 0, FALSE, 0)}

(***************************************************************************)
(* SelectionInstruction predicates used by the scheduler.                  *)
(***************************************************************************)
isRead(insn) == insn.opcode = "UNTYPED_READ"
isWrite(insn) == insn.opcode = "UNTYPED_WRITE"
isBranch(insn) == insn.opcode = "JMPI"
isLabel(insn) == insn.opcode = "LABEL"
isSync(insn) == insn.opcode = "BARRIER" \/ insn.opcode = "WAIT"

\* ra->genReg(reg).nr: the GRF number the allocator gave to a virtual register
GenRegNr(reg) == reg.reg

(***************************************************************************)
(* DependencyTracker.                                                      *)
(***************************************************************************)
\* DependencyTracker::DependencyTracker: grfNum
GrfNum(pol, width) ==
  IF pol = "PRE_ALLOC" THEN NumRegs ELSE IF width = 8 THEN 128 ELSE 64

\* size of the tracker's "nodes" array
NodesSize(pol, width) ==
  GrfNum(pol, width) + MAX_FLAG_REGISTER + MAX_ACC_REGISTER + MAX_MEM_SYSTEM

ignoreDependency(reg) ==
  IF reg.file = "IMM" THEN TRUE
  ELSE IF reg.file = "ARF" THEN reg.arf = "null"
  ELSE FALSE

getFlag(insn) ==
  IF insn.physicalFlag THEN FlagReg(insn.flag, insn.subFlag)
  ELSE Uw1Grf(insn.flagIndex)

\* DependencyTracker::getIndex(GenRegister)
getIndex(reg, pol, width) ==
  IF reg.physical
    THEN IF reg.arf = "flag"
           THEN GrfNum(pol, width) + 2 * reg.nr + (reg.subnr \div 2)
         ELSE IF reg.arf = "acc"
           THEN GrfNum(pol, width) + MAX_FLAG_REGISTER + reg.nr
         ELSE 0
  ELSE IF pol = "POST_ALLOC"
    THEN IF width = 8 THEN GenRegNr(reg) ELSE GenRegNr(reg) \div 2
  ELSE reg.reg

\* DependencyTracker::getIndex(uint32_t bti)
getIndexBti(bti, pol, width) ==
  LET memDelta == GrfNum(pol, width) + MAX_FLAG_REGISTER + MAX_ACC_REGISTER
  IN IF bti = LocalBTI THEN memDelta + LOCAL_MEMORY ELSE memDelta + GLOBAL_MEMORY

\* indices of the registers of a list that are not ignored, in list order
RECURSIVE RegIndices(_, _, _)
RegIndices(regs, pol, width) ==
  IF regs = <<>> THEN <<>>
  ELSE (IF ignoreDependency(Head(regs)) THEN <<>>
        ELSE <<getIndex(Head(regs), pol, width)>>)
       \o RegIndices(Tail(regs), pol, width)

\* mutant: a barrier or wait touches the global memory only
MemIndicesGlobalOnly(pol, width) == <<getIndexBti(GlobalBTI, pol, width)>>

\* the two memory resources a barrier or wait reads and writes
MemIndices(pol, width) ==
  <<getIndexBti(LocalBTI, pol, width), getIndexBti(GlobalBTI, pol, width)>>

\* resources an instruction reads, in the order buildDAG visits them
ReadIndices(insn, pol, width) ==
  RegIndices(insn.src, pol, width)
  \o (IF insn.predicate THEN RegIndices(<<getFlag(insn)>>, pol, width) ELSE <<>>)
  \o (IF isRead(insn) THEN <<getIndexBti(insn.function, pol, width)>> ELSE <<>>)
  \o (IF isSync(insn) THEN MemIndices(pol, width) ELSE <<>>)

\* resources an instruction writes, in the order buildDAG visits them
WriteIndices(insn, pol, width) ==
  RegIndices(insn.dst, pol, width)
  \o (IF insn.opcode = "CMP" THEN RegIndices(<<getFlag(insn)>>, pol, width) ELSE <<>>)
  \o (IF insn.accWrEnable THEN <<getIndex(AccReg, pol, width)>> ELSE <<>>)
  \o (IF isWrite(insn) THEN <<getIndexBti(insn.function, pol, width)>> ELSE <<>>)
  \o (IF isSync(insn) THEN MemIndices(pol, width) ELSE <<>>)

(***************************************************************************)
(* The dependency DAG under construction: d.nodes is the tracker's "last   *)
(* writer" array (0 is NULL), d.refNum and d.children the fields of the    *)
(* nodes.  Nodes are numbered 1..n in the order of the block.              *)
(***************************************************************************)
\* F applied to the value of v: the statements of a loop run one after the other,
\* each on the result of the one before
Then(v, F(_)) == CHOOSE r \in {F(x) : x \in {v}} : TRUE

\* ScheduleDAGNode::dependsOn, called as node0->dependsOn(node1)
dependsOn(d, node0, node1) ==
  \E i \in 1 .. Len(d.children[node0]) : d.children[node0][i] = node0

\* DependencyTracker::addDependency(node0, node1): "node0 depends on node1"
addDependency(d, node0, node1) ==
  IF node0 # 0 /\ node1 # 0 /\ node0 # node1 /\ ~dependsOn(d, node0, node1)
    THEN [d EXCEPT !.refNum[node0] = @ + 1,
                   !.children[node1] = Append(@, node0)]
    ELSE d

\* addDependency(node, index) for every index of a list, in order
RECURSIVE DependOnIndices(_, _, _)
DependOnIndices(d, node, idx) ==
  IF idx = <<>> THEN d
  ELSE Then(addDependency(d, node, d.nodes[Head(idx)]),
            LAMBDA x : DependOnIndices(x, node, Tail(idx)))

\* addDependency(index, node) for every index of a list, in order
RECURSIVE IndicesDependOn(_, _, _)
IndicesDependOn(d, idx, node) ==
  IF idx = <<>> THEN d
  ELSE Then(addDependency(d, d.nodes[Head(idx)], node),
            LAMBDA x : IndicesDependOn(x, Tail(idx), node))

\* DependencyTracker::updateWrites
updateWrites(d, node, widx) ==
  [d EXCEPT !.nodes = [i \in DOMAIN d.nodes |->
                         IF \E j \in 1 .. Len(widx) : widx[j] = i THEN node ELSE d.nodes[i]]]

\* DependencyTracker::clear
clear(d) == [d EXCEPT !.nodes = [i \in DOMAIN d.nodes |-> 0]]

\* buildDAG, first loop: read-after-write and write-after-write, nodes k..n
RECURSIVE ForwardPass(_, _, _, _, _)
ForwardPass(d, list, k, pol, width) ==
  IF k > Len(list) THEN d
  ELSE LET r == ReadIndices(list[k], pol, width)
           w == WriteIndices(list[k], pol, width)
       IN Then(updateWrites(DependOnIndices(d, k, r \o w), k, w),
               LAMBDA x : ForwardPass(x, list, k + 1, pol, width))

\* mutant: the write-after-read pass is left out
BackwardPassSkipped(d, list, k, pol, width) == d

\* buildDAG, second loop: write-after-read, nodes k down to 1
RECURSIVE BackwardPass(_, _, _, _, _)
BackwardPass(d, list, k, pol, width) ==
  IF k < 1 THEN d
  ELSE LET r == ReadIndices(list[k], pol, width)
           w == WriteIndices(list[k], pol, width)
       IN Then(updateWrites(IndicesDependOn(d, r, k), k, w),
               LAMBDA x : BackwardPass(x, list, k - 1, pol, width))

\* makeBarrier, first loop: the barrier depends on every node before it
RECURSIVE BarrierBefore(_, _, _)
BarrierBefore(d, barrier, j) ==
  IF j >= barrier THEN d
  ELSE Then(addDependency(d, barrier, j), LAMBDA x : BarrierBefore(x, barrier, j + 1))

\* makeBarrier, second loop: every node after the barrier depends on it
RECURSIVE BarrierAfter(_, _, _, _)
BarrierAfter(d, barrier, j, n) ==
  IF j > n THEN d
  ELSE Then(addDependency(d, j, barrier), LAMBDA x : BarrierAfter(x, barrier, j + 1, n))

\* DependencyTracker::makeBarrier
makeBarrier(d, barrier, n) ==
  Then(BarrierBefore(d, barrier, 1), LAMBDA x : BarrierAfter(x, barrier, barrier + 1, n))

\* mutant: branches are not made barriers
isBarrierInsnNoBranch(insn) == isLabel(insn) \/ insn.opcode = "EOT"

\* the instructions buildDAG turns into barriers
isBarrierInsn(insn) == isBranch(insn) \/ isLabel(insn) \/ insn.opcode = "EOT"

\* buildDAG, third loop
RECURSIVE BarrierPass(_, _, _)
BarrierPass(d, list, k) ==
  IF k > Len(list) THEN d
  ELSE Then(IF isBarrierInsn(list[k]) THEN makeBarrier(d, k, Len(list)) ELSE d,
            LAMBDA x : BarrierPass(x, list, k + 1))

\* mutant: every node is put on the initial ready list
InitialReadyAll(d, k, n) == [i \in 1 .. (n - k + 1) |-> k + i - 1]

\* mutant: the initial ready list is not built
InitialReadyEmpty(d, k, n) == <<>>

\* buildDAG, last loop: the nodes without a dependency, in block order
RECURSIVE InitialReady(_, _, _)
InitialReady(d, k, n) ==
  IF k > n THEN <<>>
  ELSE (IF d.refNum[k] = 0 THEN <<k>> ELSE <<>>) \o InitialReady(d, k + 1, n)

\* SelectionScheduler::buildDAG on the instructions "list" (records, block order)
buildDAG(list, pol, width) ==
  LET n == Len(list)
      d0 == [nodes |-> [i \in 0 .. (NodesSize(pol, width) - 1) |-> 0],
             refNum |-> [k \in 1 .. n |-> 0],
             children |-> [k \in 1 .. n |-> <<>>]]
  IN Then(d0, LAMBDA a :
     Then(ForwardPass(a, list, 1, pol, width), LAMBDA d1 :
     Then(BackwardPass(clear(d1), list, n, pol, width), LAMBDA d2 :
     Then(BarrierPass(d2, list, 1), LAMBDA d3 :
       [refNum |-> d3.refNum, children |-> d3.children,
        ready |-> InitialReady(d3, 1, n), insnNum |-> n]))))

(***************************************************************************)
(* scheduleDAG.  s is the record of the fields one iteration of the loop   *)
(* changes: refNum, children, ready, active.                               *)
(***************************************************************************)
\* getLatencyGen7 (table gen_insn_gen7_schedule_info.hxx, scaled down)
getLatencyGen7(insn) ==
  IF isLabel(insn) THEN 0
  ELSE IF isBranch(insn) THEN 1
  ELSE IF isRead(insn) \/ isWrite(insn) \/ insn.opcode = "BARRIER" THEN 3
  ELSE 2

\* getThroughputGen7 (same table, scaled down)
getThroughputGen7(insn, isSIMD8) ==
  IF isLabel(insn) THEN 0
  ELSE IF isBranch(insn) \/ isRead(insn) \/ isWrite(insn)
          \/ insn.opcode = "BARRIER" \/ insn.opcode = "EOT" THEN 1
  ELSE IF insn.opcode = "WAIT" THEN 2
  ELSE IF isSIMD8 THEN 1 ELSE 2

\* inner loop of the retirement: walk the children of a retired node
RECURSIVE ReleaseChildren(_, _, _, _)
ReleaseChildren(s, node, kids, kept) ==
  IF kids = <<>> THEN [s EXCEPT !.children[node] = kept]
  ELSE LET c == Head(kids)
           s1 == [s EXCEPT !.refNum[c] = @ - 1]
       IN IF s1.refNum[c] = 0
            THEN Then([s1 EXCEPT !.ready = Append(@, c)],
                      LAMBDA x : ReleaseChildren(x, node, Tail(kids), kept))
            ELSE Then(s1, LAMBDA x : ReleaseChildren(x, node, Tail(kids), Append(kept, c)))

\* outer loop of the retirement: walk the active list
RECURSIVE RetireAll(_, _, _, _)
RetireAll(s, act, rc, cyc) ==
  IF act = <<>> THEN s
  ELSE LET node == Head(act)
       IN IF rc[node] <= cyc
            THEN Then(ReleaseChildren(
                        [s EXCEPT !.active = SelectSeq(@, LAMBDA y : y # node)],
                        node, s.children[node], <<>>),
                      LAMBDA x : RetireAll(x, Tail(act), rc, cyc))
            ELSE RetireAll(s, Tail(act), rc, cyc)

\* the node the policy takes from a non-empty ready list
\* mutant: the newest ready node is taken under either policy
toScheduleNewest(rdy, pol) == rdy[Len(rdy)]

\* mutant: the oldest ready node is taken under either policy
toScheduleOldest(rdy, pol) == rdy[1]

toSchedule(rdy, pol) ==
  IF pol = "POST_ALLOC" THEN rdy[1] ELSE rdy[Len(rdy)]

\* mutant: the node taken stays in the ready list
eraseScheduledKept(rdy, pol) == rdy

\* the ready list without the node taken
eraseScheduled(rdy, pol) ==
  IF pol = "POST_ALLOC" THEN Tail(rdy) ELSE SubSeq(rdy, 1, Len(rdy) - 1)

(***************************************************************************)
(* The scheduler's state machine: one block goes through the two passes.   *)
(***************************************************************************)
\* no pass of the model counts this many cycles (C4 checks it): the cap only keeps
\* the state space finite when the loop cannot end
CycleCap == 5 * (MaxInsn + 1) + 1

Blocks == [1 .. (MaxInsn + 1) -> InsnPool \cup {LabelInsn}]

SchedInit ==
  /\ insns \in {b \in Blocks : b[1] = LabelInsn /\ \A i \in 2 .. (MaxInsn + 1) : b[i] # LabelInsn}
  /\ insnList = [i \in 1 .. (MaxInsn + 1) |-> i]
  /\ origList = insnList
  /\ nodeInsn = <<>>
  /\ refNum = <<>>
  /\ children = <<>>
  /\ retiredCycle = <<>>
  /\ ready = <<>>
  /\ active = <<>>
  /\ cycle = 0
  /\ insnNum = 0
  /\ policy = "PRE_ALLOC"
  /\ simdWidth \in {8, 16}
  /\ preSwitch \in BOOLEAN
  /\ postSwitch \in BOOLEAN
  /\ spc = "pre"

\* buildDAG(bb); bb.insnList.clear(); and the entry of scheduleDAG
StartPass(pol, loopPc, nextPc) ==
  LET list == [k \in 1 .. Len(insnList) |-> insns[insnList[k]]]
      dag == buildDAG(list, pol, simdWidth)
  IN /\ policy' = pol
     /\ origList' = insnList
     /\ nodeInsn' = insnList
     /\ refNum' = dag.refNum
     /\ children' = dag.children
     /\ retiredCycle' = [k \in 1 .. Len(insnList) |-> 0]
     /\ ready' = dag.ready
     /\ active' = <<>>
     /\ insnList' = <<>>
     /\ cycle' = 0
     /\ insnNum' = dag.insnNum
     /\ spc' = IF dag.insnNum = 0 THEN nextPc ELSE loopPc
     /\ UNCHANGED <<insns, simdWidth, preSwitch, postSwitch>>

\* the pass is switched off: nothing is touched
SkipPass(nextPc) ==
  /\ spc' = nextPc
  /\ UNCHANGED <<insns, insnList, origList, nodeInsn, refNum, children, retiredCycle,
                 ready, active, cycle, insnNum, policy, simdWidth, preSwitch, postSwitch>>

\* the switch each pass tests
PreAllocEnabled == preSwitch
\* mutant: the post-allocation pass tests the switch of the other pass
PostAllocEnabledByPre == preSwitch
PostAllocEnabled == postSwitch

schedulePreRegAllocation ==
  /\ spc = "pre"
  /\ IF PreAllocEnabled THEN StartPass("PRE_ALLOC", "preLoop", "post") ELSE SkipPass("post")
  /\ UNCHANGED <<compVars, laneVars, irVars, raVars, trackVars, progVars>>

schedulePostRegAllocation ==
  /\ spc = "post"
  /\ IF PostAllocEnabled THEN StartPass("POST_ALLOC", "postLoop", "done") ELSE SkipPass("done")
  /\ UNCHANGED <<compVars, laneVars, irVars, raVars, trackVars, progVars>>

\* one iteration of the while loop of scheduleDAG
scheduleDAG ==
  /\ spc \in {"preLoop", "postLoop"}
  /\ insnNum > 0
  /\ cycle < CycleCap
  /\ LET s == RetireAll([refNum |-> refNum, children |-> children,
                         ready |-> ready, active |-> active],
                        active, retiredCycle, cycle)
     IN /\ refNum' = s.refNum
        /\ children' = s.children
        /\ IF s.ready # <<>>
             THEN LET node == toSchedule(s.ready, policy)
                      insn == insns[nodeInsn[node]]
                      cyc == IF policy = "POST_ALLOC"
                               THEN cycle + getThroughputGen7(insn, simdWidth = 8)
                               ELSE cycle
                  IN /\ cycle' = cyc
                     /\ ready' = eraseScheduled(s.ready, policy)
                     /\ active' = Append(s.active, node)
                     /\ retiredCycle' = [retiredCycle EXCEPT ![node] =
                                           IF policy = "POST_ALLOC"
                                             THEN cyc + getLatencyGen7(insn) ELSE cyc]
                     /\ insnList' = Append(insnList, nodeInsn[node])
                     /\ insnNum' = insnNum - 1
                     /\ spc' = IF insnNum - 1 = 0
                                 THEN (IF spc = "preLoop" THEN "post" ELSE "done")
                                 ELSE spc
             ELSE /\ cycle' = cycle + 1
                  /\ ready' = s.ready
                  /\ active' = s.active
                  /\ UNCHANGED <<retiredCycle, insnList, insnNum, spc>>
  /\ UNCHANGED <<insns, origList, nodeInsn, policy, simdWidth, preSwitch, postSwitch>>
  /\ UNCHANGED <<compVars, laneVars, irVars, raVars, trackVars, progVars>>

(***************************************************************************)
(* GenProgram::compileKernel: the retry loop over the code-generation      *)
(* strategies.                                                             *)
(***************************************************************************)
MaxCalls == 2     \* calls of compileKernel on the same kernel

\* mutant: the width-8 strategies come first
codeGenStrategyNarrowFirst ==
  [k \in 0 .. 3 |->
     CASE k = 0 -> [simdWidth |-> 8, limitRegisterPressure |-> FALSE]
       [] k = 1 -> [simdWidth |-> 8, limitRegisterPressure |-> TRUE]
       [] k = 2 -> [simdWidth |-> 16, limitRegisterPressure |-> FALSE]
       [] k = 3 -> [simdWidth |-> 16, limitRegisterPressure |-> TRUE]]

\* codeGenStrategy[], indexed from 0 as in the code
codeGenStrategy ==
  [k \in 0 .. 3 |->
     CASE k = 0 -> [simdWidth |-> 16, limitRegisterPressure |-> FALSE]
       [] k = 1 -> [simdWidth |-> 16, limitRegisterPressure |-> TRUE]
       [] k = 2 -> [simdWidth |-> 8, limitRegisterPressure |-> FALSE]
       [] k = 3 -> [simdWidth |-> 8, limitRegisterPressure |-> TRUE]]

\* mutant: the loop always runs to the end of the table
CodeGenNumOfWholeTable(width) == 4

\* const uint32_t codeGenNum = fn->getSimdWidth() != 0 ? 2 : 4
CodeGenNumOf(width) == IF width # 0 THEN 2 ELSE 4

\* uint32_t codeGen = fn->getSimdWidth() == 8 ? 2 : 0
CodeGenStartOf(width) == IF width = 8 THEN 2 ELSE 0

\* GBE_ASSERTM(kernel != NULL, ...): it stops the program in a build with
\* GBE_DEBUG=1 and is compiled out in a build with GBE_DEBUG=0
AssertFails(k, debug) == debug /\ k = 0

\* ctx->compileKernel() under strategy k: NULL (0) or the kernel of that strategy
ctxCompileKernel(k, ok) == IF k \in ok THEN k + 1 ELSE 0

CompInit ==
  /\ fnSimdWidth \in {0, 8, 16}
  /\ entryWidth = 0
  /\ codeGen = 0
  /\ codeGenNum = 0
  /\ kernel = 0
  /\ tried = <<>>
  /\ compilable \in SUBSET (0 .. 3)
  /\ gbeDebug \in BOOLEAN
  /\ calls = 0
  /\ cpc = "idle"

\* entry of compileKernel, up to the loop
compileKernelEntry ==
  /\ cpc \in {"idle", "returned"}
  /\ calls < MaxCalls
  /\ calls' = calls + 1
  /\ entryWidth' = fnSimdWidth
  /\ codeGenNum' = CodeGenNumOf(fnSimdWidth)
  /\ codeGen' = CodeGenStartOf(fnSimdWidth)
  /\ kernel' = 0
  /\ tried' = <<>>
  /\ cpc' = "loop"
  /\ UNCHANGED <<fnSimdWidth, compilable, gbeDebug>>
  /\ UNCHANGED <<schedVars, laneVars, irVars, raVars, trackVars, progVars>>

\* one iteration of the loop: force the width, compile, break on success
compileKernelAttempt ==
  /\ cpc = "loop"
  /\ codeGen < codeGenNum
  /\ fnSimdWidth' = codeGenStrategy[codeGen].simdWidth
  /\ tried' = Append(tried, codeGen)
  /\ kernel' = ctxCompileKernel(codeGen, compilable)
  /\ IF kernel' # 0
       THEN cpc' = "check" /\ codeGen' = codeGen
       ELSE cpc' = "loop" /\ codeGen' = codeGen + 1
  /\ UNCHANGED <<entryWidth, codeGenNum, compilable, gbeDebug, calls>>
  /\ UNCHANGED <<schedVars, laneVars, irVars, raVars, trackVars, progVars>>

\* the loop condition fails: no strategy is left
compileKernelExhausted ==
  /\ cpc = "loop"
  /\ codeGen >= codeGenNum
  /\ cpc' = "check"
  /\ UNCHANGED <<fnSimdWidth, entryWidth, codeGen, codeGenNum, kernel, tried,
                 compilable, gbeDebug, calls>>
  /\ UNCHANGED <<schedVars, laneVars, irVars, raVars, trackVars, progVars>>

\* the assertion after the loop, and the return
compileKernelReturn ==
  /\ cpc = "check"
  /\ cpc' = IF AssertFails(kernel, gbeDebug) THEN "aborted" ELSE "returned"
  /\ UNCHANGED <<fnSimdWidth, entryWidth, codeGen, codeGenNum, kernel, tried,
                 compilable, gbeDebug, calls>>
  /\ UNCHANGED <<schedVars, laneVars, irVars, raVars, trackVars, progVars>>

(***************************************************************************)
(* Linearized control flow: the blocks are laid out in the order of their  *)
(* identifiers 0 .. NumBlocks-1, every lane keeps a block IP, and the      *)
(* hardware thread runs the blocks as one program flow.                    *)
(***************************************************************************)
NumBlocks == 3    \* basic blocks of the kernel
NumLanes == 2     \* SIMD lanes of the model

BlockIds == 0 .. (NumBlocks - 1)
Lanes == 1 .. NumLanes
LastBlock == NumBlocks - 1

\* the ways a block can end: fall through, branch, predicated branch, return
Terminators(b) ==
  IF b = LastBlock THEN {[kind |-> "ret", target |-> b]}
  ELSE {[kind |-> "fall", target |-> b + 1]}
       \cup {[kind |-> k, target |-> t] : k \in {"bra", "cbra"}, t \in BlockIds}

\* the retained control-flow edges of a block
Successors(term, b) ==
  CASE term.kind = "ret" -> {}
    [] term.kind = "fall" -> {b + 1}
    [] term.kind = "bra" -> {term.target}
    [] OTHER -> {term.target, b + 1}

\* mutant: a lane is activated when its block IP is at or beyond the block
ActivatedFromAbove(ip, b) == ip >= b

\* the compare at the head of a block: is a lane with this block IP activated?
Activated(ip, b) == ip <= b

\* the block IP a lane that holds ip keeps when it leaves for block t: the
\* identifier of t, the block it targets, unless that would lower the identifier
\* it holds (spec 4.1: the stored identifier never decreases)
LaneTargets(ip, t) == IF t >= ip THEN t ELSE ip

\* where the program flow goes after block b: back, if any lane takes a backward
\* branch, otherwise on to the next block
FlowAfter(b, takes, lanes) ==
  IF \E l \in lanes : takes[l] <= b THEN CHOOSE t \in BlockIds : \E l \in lanes : takes[l] = t /\ t <= b
  ELSE b + 1

LaneInit ==
  /\ succ \in {f \in [BlockIds -> SUBSET BlockIds] :
                 \A b \in BlockIds : \E term \in Terminators(b) : f[b] = Successors(term, b)}
  /\ blockIP = [l \in Lanes |-> 0]
  /\ cur = 0
  /\ mask = {}
  /\ lastExec = [block |-> 0, executed |-> {}, before |-> blockIP, after |-> blockIP]
  /\ lpc = "head"

\* head of a block: build the mask; with no lane activated jump to the next block
blockHead ==
  /\ lpc = "head"
  /\ cur \in BlockIds
  /\ mask' = {l \in Lanes : Activated(blockIP[l], cur)}
  /\ IF mask' = {}
       THEN cur' = cur + 1 /\ lpc' = "head"
       ELSE cur' = cur /\ lpc' = "body"
  /\ UNCHANGED <<succ, blockIP, lastExec>>
  /\ UNCHANGED <<schedVars, compVars, irVars, raVars, trackVars, progVars>>

\* body of a block: the lanes of the mask run it and each takes one of its edges
blockBody ==
  /\ lpc = "body"
  /\ cur \in BlockIds
  /\ \E takes \in [mask -> BlockIds] :
       LET ips == [l \in Lanes |->
                    IF l \in mask /\ succ[cur] # {}
                      THEN LaneTargets(blockIP[l], takes[l]) ELSE blockIP[l]]
       IN /\ \A l \in mask : takes[l] \in (IF succ[cur] = {} THEN {cur} ELSE succ[cur])
          /\ blockIP' = ips
          /\ lastExec' = [block |-> cur, executed |-> mask, before |-> blockIP, after |-> ips]
          /\ IF succ[cur] = {}
               THEN cur' = cur /\ lpc' = "done"
               ELSE cur' = FlowAfter(cur, takes, mask) /\ lpc' = "head"
  /\ UNCHANGED <<succ, mask>>
  /\ UNCHANGED <<schedVars, compVars, irVars, raVars, trackVars, progVars>>

(***************************************************************************)
(* The IR layer: wellFormed (ir/instruction.cpp).  The function owning the *)
(* instruction has NumIrRegs registers, the tuple table IrTuples, the      *)
(* immediates IrImmediates and NumIrLabels labels.  wellFormed returns the *)
(* reason it leaves in whyNot; the empty string is "true".                 *)
(***************************************************************************)
NumIrRegs == 4        \* registers of the function (fn.regNum())
NumIrLabels == 2      \* labels of the function (fn.labelNum())
MaxValueNum == 2      \* values of a load or a store
MaxSyncParams == 33   \* largest parameter word of a sync instruction

oclRegNum == 2        \* ocl::regNum: the special registers are 0 .. oclRegNum - 1
oclStackptr == 1      \* ocl::stackptr
MAX_SRC_NUM == 8
MAX_DST_NUM == 8
SYNC_WORKGROUP_EXEC == 1
SYNC_LOCAL_READ_FENCE == 2
SYNC_LOCAL_WRITE_FENCE == 4
SYNC_GLOBAL_READ_FENCE == 8
SYNC_GLOBAL_WRITE_FENCE == 16

\* getFamily(Type)
getFamily(type) ==
  CASE type = "BOOL" -> "FAMILY_BOOL"
    [] type \in {"S8", "U8"} -> "FAMILY_BYTE"
    [] type \in {"S16", "U16"} -> "FAMILY_WORD"
    [] type \in {"S32", "U32", "FLOAT"} -> "FAMILY_DWORD"
    [] OTHER -> "FAMILY_QWORD"

\* the register file of the function: the family of register r
IrFamilies == <<"FAMILY_BOOL", "FAMILY_DWORD", "FAMILY_WORD", "FAMILY_QWORD">>
IrRegFamily(r) ==
  IF r < oclRegNum THEN "FAMILY_DWORD"
  ELSE IrFamilies[((r - oclRegNum) % Len(IrFamilies)) + 1]
\* the tuple table of the function (slot i is IrTuples[i + 1])
IrTuples == <<2, 3, 3, 3, 0, 1>>
\* the types of the immediates of the function
IrImmediates == <<"S32", "FLOAT">>

regNum == NumIrRegs
tupleNum == Len(IrTuples)
immediateNum == Len(IrImmediates)
labelNum == NumIrLabels
\* Unit::getPointerFamily: the family of an address
getPointerFamily == "FAMILY_DWORD"

\* Function::getRegister(tuple, which); g is what a read past the table yields
getRegister(tuple, which, g) ==
  IF tuple + which < tupleNum THEN IrTuples[tuple + which + 1] ELSE g

\* Function::isSpecialReg.  Without the OCL profile getFirstSpecialReg is ~0u,
\* above every 16-bit register index: no register is special then.
isSpecialReg(profile, reg) ==
  IF profile = "PROFILE_OCL" THEN reg >= 0 /\ reg < 0 + oclRegNum ELSE FALSE

\* the first reason of a list of checks, in the order the code makes them
FirstWhy(whys) ==
  IF \A i \in 1 .. Len(whys) : whys[i] = "" THEN ""
  ELSE whys[CHOOSE i \in 1 .. Len(whys) :
              whys[i] # "" /\ \A j \in 1 .. (i - 1) : whys[j] = ""]

checkRegisterData(family, ID) ==
  IF ID >= regNum THEN "Out-of-bound destination register index"
  ELSE IF IrRegFamily(ID) # family THEN "Destination family does not match instruction type"
  ELSE ""

\* mutant: special registers are writeable
checkSpecialRegForWriteSkipped(profile, reg) == ""

checkSpecialRegForWrite(profile, reg) ==
  IF isSpecialReg(profile, reg) /\ reg # oclStackptr
    THEN "Non stack pointer special registers are not writeable" ELSE ""

checkTypeFamily(type, family) ==
  IF \E i \in 1 .. Len(family) : family[i] = type THEN ""
  ELSE "Type is not supported by the instruction"

madType == <<"FLOAT">>
allButBool == <<"S8", "U8", "S16", "U16", "S32", "U32", "FLOAT", "DOUBLE">>
logicalType == <<"S8", "U8", "S16", "U16", "S32", "U32", "BOOL">>
\* the opcodes NaryInstruction::wellFormed checks against TYPE_FLOAT
FloatOnlyOps == {"POW", "COS", "SIN", "RCP", "ABS", "RSQ", "SQR",
                 "RNDD", "RNDE", "RNDU", "RNDZ"}

(***************************************************************************)
(* The instructions.  One record shape for all classes; a class reads only *)
(* its own fields.  dst and src are the registers held in the instruction, *)
(* tuple/valueNum the registers it holds in the tuple table.               *)
(***************************************************************************)
IrInsn(kind, opcode, type, srcType, dst, src, tuple, valueNum, offset, index, flags, predicate, parameters) ==
  [kind |-> kind, opcode |-> opcode, type |-> type, srcType |-> srcType,
   dst |-> dst, src |-> src, tuple |-> tuple, valueNum |-> valueNum,
   offset |-> offset, index |-> index, hasLabel |-> flags[1],
   hasPredicate |-> flags[2], predicate |-> predicate, parameters |-> parameters]

NoFlags == <<FALSE, FALSE>>

\* NaryInstruction<srcNum>::wellFormed (unary and binary)
wellFormedNary(insn, profile) ==
  LET family == getFamily(insn.type)
  IN FirstWhy(<<checkSpecialRegForWrite(profile, insn.dst[1]),
                checkRegisterData(family, insn.dst[1])>>
              \o [i \in 1 .. Len(insn.src) |-> checkRegisterData(family, insn.src[i])]
              \o <<IF insn.opcode \in {"OR", "XOR", "AND"}
                     THEN checkTypeFamily(insn.type, logicalType)
                   ELSE IF insn.opcode \in FloatOnlyOps
                     THEN checkTypeFamily("FLOAT", <<"FLOAT">>)
                   ELSE checkTypeFamily(insn.type, allButBool)>>)

\* SelectInstruction::wellFormed
wellFormedSelect(insn, profile) ==
  LET family == getFamily(insn.type)
      inBound == insn.tuple + 3 <= tupleNum
  IN FirstWhy(<<checkSpecialRegForWrite(profile, insn.dst[1]),
                checkRegisterData(family, insn.dst[1]),
                IF ~inBound THEN "Out-of-bound index for ternary instruction" ELSE "",
                IF inBound THEN checkRegisterData("FAMILY_BOOL", getRegister(insn.tuple, 0, 0))
                ELSE "",
                IF inBound THEN checkRegisterData(family, getRegister(insn.tuple, 1, 0)) ELSE "",
                IF inBound THEN checkRegisterData(family, getRegister(insn.tuple, 2, 0)) ELSE "",
                checkTypeFamily(insn.type, allButBool)>>)

\* CompareInstruction::wellFormed
wellFormedCompare(insn, profile) ==
  LET family == getFamily(insn.type)
  IN FirstWhy(<<checkSpecialRegForWrite(profile, insn.dst[1]),
                checkRegisterData("FAMILY_BOOL", insn.dst[1]),
                checkRegisterData(family, insn.src[1]),
                checkRegisterData(family, insn.src[2]),
                checkTypeFamily(insn.type, allButBool)>>)

\* ConvertInstruction::wellFormed
wellFormedConvert(insn, profile) ==
  FirstWhy(<<checkSpecialRegForWrite(profile, insn.dst[1]),
             checkRegisterData(getFamily(insn.type), insn.dst[1]),
             checkRegisterData(getFamily(insn.srcType), insn.src[1]),
             checkTypeFamily(insn.type, allButBool),
             checkTypeFamily(insn.srcType, allButBool)>>)

\* wellFormedLoadStore
wellFormedLoadStore(insn) ==
  LET family == getFamily(insn.type)
      inBound == insn.tuple + insn.valueNum <= tupleNum
  IN FirstWhy(<<IF insn.offset >= regNum THEN "Out-of-bound offset register index" ELSE "",
                IF ~inBound THEN "Out-of-bound tuple index" ELSE "">>
              \o [v \in 1 .. insn.valueNum |->
                    IF inBound THEN checkRegisterData(family, getRegister(insn.tuple, v - 1, 0))
                    ELSE ""]
              \o <<checkTypeFamily(insn.type, allButBool)>>)

\* LoadInstruction::wellFormed; g is what getDst reads past the tuple table
wellFormedLoad(insn, profile, g) ==
  FirstWhy([d \in 1 .. insn.valueNum |->
              checkSpecialRegForWrite(profile, getRegister(insn.tuple, d - 1, g))]
           \o <<IF insn.valueNum > MAX_DST_NUM
                  THEN "Too many destinations for load instruction" ELSE "",
                wellFormedLoadStore(insn)>>)

\* the reads LoadInstruction::wellFormed makes past the end of the tuple table
LoadReadsPastTuples(insn) ==
  \E d \in 1 .. insn.valueNum : insn.tuple + (d - 1) >= tupleNum

\* StoreInstruction::wellFormed
wellFormedStore(insn) ==
  FirstWhy(<<IF insn.valueNum + 1 > MAX_SRC_NUM
               THEN "Too many source for store instruction" ELSE "",
             wellFormedLoadStore(insn)>>)

\* SampleInstruction::wellFormed and TypedWriteInstruction::wellFormed
wellFormedSample(insn) == ""

\* LoadImmInstruction::wellFormed
wellFormedLoadImm(insn, profile) ==
  LET inBound == insn.index < immediateNum
  IN FirstWhy(<<IF ~inBound THEN "Out-of-bound immediate value index" ELSE "",
                IF inBound /\ insn.type # IrImmediates[insn.index + 1]
                  THEN "Inconsistant type for the immediate value to load" ELSE "",
                checkSpecialRegForWrite(profile, insn.dst[1]),
                checkRegisterData(getFamily(insn.type), insn.dst[1]),
                checkTypeFamily(insn.type, allButBool)>>)

\* mutant: only a parameter word beyond SYNC_INVALID is refused
maxParamsWide ==
  2 * (SYNC_WORKGROUP_EXEC + SYNC_LOCAL_READ_FENCE + SYNC_LOCAL_WRITE_FENCE
       + SYNC_GLOBAL_READ_FENCE + SYNC_GLOBAL_WRITE_FENCE) + 1

\* the five flags are distinct bits: their bitwise OR is their sum
maxParams ==
  SYNC_WORKGROUP_EXEC + SYNC_LOCAL_READ_FENCE + SYNC_LOCAL_WRITE_FENCE
  + SYNC_GLOBAL_READ_FENCE + SYNC_GLOBAL_WRITE_FENCE

\* SyncInstruction::wellFormed
wellFormedSync(insn) ==
  IF insn.parameters > maxParams THEN "Invalid parameters for sync instruction"
  ELSE IF insn.parameters = 0 THEN "Missing parameters for sync instruction"
  ELSE ""

\* LabelInstruction::wellFormed
wellFormedLabel(insn) ==
  IF insn.index >= labelNum THEN "Out-of-bound label index" ELSE ""

\* BranchInstruction::wellFormed
wellFormedBranch(insn) ==
  FirstWhy(<<IF insn.hasLabel /\ insn.index >= labelNum THEN "Out-of-bound label index" ELSE "",
             IF insn.hasPredicate THEN checkRegisterData("FAMILY_BOOL", insn.predicate) ELSE "">>)

\* Instruction::wellFormed: the dispatch on the class of the opcode
wellFormed(insn, profile, g) ==
  CASE insn.kind \in {"Unary", "Binary"} -> wellFormedNary(insn, profile)
    [] insn.kind = "Select" -> wellFormedSelect(insn, profile)
    [] insn.kind = "Compare" -> wellFormedCompare(insn, profile)
    [] insn.kind = "Convert" -> wellFormedConvert(insn, profile)
    [] insn.kind = "Load" -> wellFormedLoad(insn, profile, g)
    [] insn.kind = "Store" -> wellFormedStore(insn)
    [] insn.kind \in {"Sample", "TypedWrite"} -> wellFormedSample(insn)
    [] insn.kind = "LoadImm" -> wellFormedLoadImm(insn, profile)
    [] insn.kind = "Sync" -> wellFormedSync(insn)
    [] insn.kind = "Label" -> wellFormedLabel(insn)
    [] OTHER -> wellFormedBranch(insn)

\* the slots wellFormedLoadStore reads: none unless both bound checks pass, then
\* the values in order up to the first one checkRegisterData refuses
LoadStoreReads(insn) ==
  LET t == insn.tuple
      family == getFamily(insn.type)
  IN IF insn.offset < regNum /\ t + insn.valueNum <= tupleNum
       THEN {<<"tuple", t + v>> : v \in {e \in 0 .. (insn.valueNum - 1) :
               \A f \in 0 .. (e - 1) :
                 checkRegisterData(family, getRegister(t, f, 0)) = ""}}
       ELSE {}

\* the slots of the tuple table and of the immediate table wellFormed reads
\* before it returns
TableReads(insn, profile, g) ==
  LET t == insn.tuple
      family == getFamily(insn.type)
  IN CASE insn.kind = "Select" ->
            IF /\ checkSpecialRegForWrite(profile, insn.dst[1]) = ""
               /\ checkRegisterData(family, insn.dst[1]) = ""
               /\ t + 3 <= tupleNum
              THEN {<<"tuple", t + v>> : v \in {e \in 0 .. 2 :
                      \A f \in 0 .. (e - 1) :
                        checkRegisterData(IF f = 0 THEN "FAMILY_BOOL" ELSE family,
                                          getRegister(t, f, 0)) = ""}}
              ELSE {}
       [] insn.kind = "Load" ->
            {<<"tuple", t + d>> : d \in {e \in 0 .. (insn.valueNum - 1) :
               \A f \in 0 .. (e - 1) :
                 checkSpecialRegForWrite(profile, getRegister(t, f, g)) = ""}}
            \cup (IF /\ \A d \in 0 .. (insn.valueNum - 1) :
                          checkSpecialRegForWrite(profile, getRegister(t, d, g)) = ""
                     /\ insn.valueNum <= MAX_DST_NUM
                    THEN LoadStoreReads(insn) ELSE {})
       [] insn.kind = "Store" ->
            IF insn.valueNum + 1 <= MAX_SRC_NUM THEN LoadStoreReads(insn) ELSE {}
       [] insn.kind = "LoadImm" ->
            IF insn.index < immediateNum THEN {<<"immediate", insn.index>>} ELSE {}
       [] OTHER -> {}

\* a read of a slot the table does not have
OutOfTable(read) ==
  \/ read[1] = "tuple" /\ read[2] >= tupleNum
  \/ read[1] = "immediate" /\ read[2] >= immediateNum

(***************************************************************************)
(* The instructions wellFormed is run on.                                  *)
(***************************************************************************)
IrTypes == {"BOOL", "S16", "S32", "FLOAT"}
RegIds == 0 .. NumIrRegs            \* NumIrRegs itself is past the register file
TupleIds == 0 .. Len(IrTuples)      \* the last one is past the tuple table
IrProfiles == {"PROFILE_OCL", "PROFILE_C"}

IrInsnPool ==
  {IrInsn("Unary", op, ty, ty, <<d>>, <<a>>, 0, 0, 0, 0, NoFlags, 0, 0) :
     op \in {"MOV", "COS"}, ty \in IrTypes, d \in RegIds, a \in RegIds}
  \cup {IrInsn("Binary", op, ty, ty, <<d>>, <<a, b>>, 0, 0, 0, 0, NoFlags, 0, 0) :
     op \in {"ADD", "AND"}, ty \in IrTypes, d \in RegIds, a \in RegIds, b \in RegIds}
  \cup {IrInsn("Compare", "EQ", ty, ty, <<d>>, <<a, b>>, 0, 0, 0, 0, NoFlags, 0, 0) :
     ty \in IrTypes, d \in RegIds, a \in RegIds, b \in RegIds}
  \cup {IrInsn("Convert", "CVT", ty, sty, <<d>>, <<a>>, 0, 0, 0, 0, NoFlags, 0, 0) :
     ty \in IrTypes, sty \in IrTypes, d \in RegIds, a \in RegIds}
  \cup {IrInsn("Select", "SEL", ty, ty, <<d>>, <<>>, t, 3, 0, 0, NoFlags, 0, 0) :
     ty \in IrTypes, d \in RegIds, t \in TupleIds}
  \cup {IrInsn(k, k, ty, ty, <<>>, <<>>, t, n, o, 0, NoFlags, 0, 0) :
     k \in {"Load", "Store"}, ty \in IrTypes, t \in TupleIds,
     n \in 0 .. MaxValueNum, o \in RegIds}
  \cup {IrInsn("LoadImm", "LOADI", ty, ty, <<d>>, <<>>, 0, 0, 0, i, NoFlags, 0, 0) :
     ty \in IrTypes, d \in RegIds, i \in 0 .. Len(IrImmediates)}
  \cup {IrInsn("Sync", "SYNC", "S32", "S32", <<>>, <<>>, 0, 0, 0, 0, NoFlags, 0, p) :
     p \in 0 .. MaxSyncParams}
  \cup {IrInsn("Label", "LABEL", "S32", "S32", <<>>, <<>>, 0, 0, 0, l, NoFlags, 0, 0) :
     l \in 0 .. NumIrLabels}
  \cup {IrInsn("Branch", "BRA", "S32", "S32", <<>>, <<>>, 0, 0, 0, l, <<TRUE, FALSE>>, 0, 0) :
     l \in 0 .. NumIrLabels}
  \cup {IrInsn("Branch", "BRA", "S32", "S32", <<>>, <<>>, 0, 0, 0, l, <<TRUE, TRUE>>, r, 0) :
     l \in 0 .. NumIrLabels, r \in RegIds}
  \cup {IrInsn("Branch", "RET", "S32", "S32", <<>>, <<>>, 0, 0, 0, 0, NoFlags, 0, 0)}
  \cup {IrInsn(k, k, "S32", "S32", <<>>, <<>>, 0, 0, 0, 0, NoFlags, 0, 0) :
     k \in {"Sample", "TypedWrite"}}

WfInit ==
  /\ irProfile \in IrProfiles
  /\ irInsn \in IrInsnPool
  /\ wfOk = FALSE
  /\ wfWhy = ""
  /\ wfOob = FALSE
  /\ wpc = "new"

\* Instruction::wellFormed(whyNot) on irInsn
wellFormedCheck ==
  /\ wpc = "new"
  /\ \E g \in RegIds :
       LET why == wellFormed(irInsn, irProfile, g)
       IN /\ wfOk' = (why = "")
          /\ wfWhy' = why
          /\ wfOob' = (\E r \in TableReads(irInsn, irProfile, g) : OutOfTable(r))
  /\ wpc' = "checked"
  /\ UNCHANGED <<irProfile, irInsn, fnVars, schedVars, compVars, laneVars, raVars, trackVars, progVars>>

WfIdle ==
  /\ irProfile = "PROFILE_OCL"
  /\ irInsn = <<>>
  /\ wfOk = FALSE
  /\ wfWhy = ""
  /\ wfOob = FALSE
  /\ wpc = "idle"

(***************************************************************************)
(* The function as a list of basic blocks (ir/function.cpp): each block is *)
(* an intrusive list of instructions; an instruction records its parent.   *)
(* Only what sortLabels, replace, remove and append look at is kept of an  *)
(* instruction: its opcode, its label index and whether it is predicated.  *)
(***************************************************************************)
NumFnBlocks == 2     \* most blocks of a function
NumFnLabels == 2     \* labels handed out by newLabel before the function is closed
MaxBlockLen == 3     \* most instructions of one block, its label included
MaxFnInsns == 5      \* instructions the function's pool can hold at once
MaxLabelTable == 3   \* entries of the label table newLabel is followed up to

FnIds == 1 .. MaxFnInsns
FnLabelIds == 0 .. NumFnLabels - 1

\* a slot of the pool that holds no instruction (never allocated, or deleted)
NoInsn == [live |-> FALSE, parent |-> 0, opcode |-> "NONE", index |-> 0, predicated |-> FALSE]

\* ir::LABEL(index), ir::BRA(index), ir::BRA(index, predicate) and any other instruction
LABEL(index) == [live |-> TRUE, parent |-> 0, opcode |-> "OP_LABEL", index |-> index, predicated |-> FALSE]
BRA(index, predicated) == [live |-> TRUE, parent |-> 0, opcode |-> "OP_BRA", index |-> index, predicated |-> predicated]
OtherInsn == [live |-> TRUE, parent |-> 0, opcode |-> "OP_ADD", index |-> 0, predicated |-> FALSE]

\* Function::newInstruction: the pool hands out a free slot
newInstruction(pool) == CHOOSE id \in FnIds : ~pool[id].live /\ \A j \in FnIds : j < id => pool[j].live

\* intrusive list: position of a node, unlink(node), append(node, prev), push_back
PositionOf(list, id) == CHOOSE p \in 1 .. Len(list) : list[p] = id
Unlink(list, id) == SelectSeq(list, LAMBDA e : e # id)
InsertAfter(list, k, id) == SubSeq(list, 1, k) \o <<id>> \o SubSeq(list, k + 1, Len(list))
Holds(list, id) == \E p \in 1 .. Len(list) : list[p] = id

\* the block whose list holds the instruction
BlockHolding(blocks, id) == CHOOSE b \in 1 .. Len(blocks) : Holds(blocks[b], id)

\* insn.setParent(block) left out
setParentSkipped(insn, block) == insn
\* Instruction::setParent
setParent(insn, block) == [insn EXCEPT !.parent = block]

\* BasicBlock::append(insn) with insn fresh from newInstruction
BlockAppend(st, b, new) ==
  LET id == newInstruction(st.insn)
  IN [blocks |-> [st.blocks EXCEPT ![b] = Append(@, id)],
      insn |-> [st.insn EXCEPT ![id] = setParent(new, b)]]

\* Instruction::remove: unlink(this), fn.deleteInstruction(this)
Remove(st, id) ==
  LET b == BlockHolding(st.blocks, id)
  IN [blocks |-> [st.blocks EXCEPT ![b] = Unlink(@, id)],
      insn |-> [st.insn EXCEPT ![id] = NoInsn]]

\* the new instruction takes other->parent
parentOfOther(st, other) == st.insn[other].parent

\* Instruction::replace(other): the copy takes other's parent, other is removed,
\* the copy is linked after other's former predecessor
Replace(st, new, other) ==
  LET id == newInstruction(st.insn)
      b == BlockHolding(st.blocks, other)
      prev == PositionOf(st.blocks[b], other) - 1
      s1 == [blocks |-> st.blocks,
             insn |-> [st.insn EXCEPT ![id] = [new EXCEPT !.parent = parentOfOther(st, other)]]]
      s2 == Remove(s1, other)
  IN [blocks |-> [s2.blocks EXCEPT ![b] = InsertAfter(@, prev, id)], insn |-> s2.insn]

\* every (block, position) of the function, in the order foreachInstruction visits them
RECURSIVE BlockPositions(_, _, _)
BlockPositions(blocks, b, p) ==
  IF b > Len(blocks) THEN <<>>
  ELSE IF p > Len(blocks[b]) THEN BlockPositions(blocks, b + 1, 1)
  ELSE <<<<b, p>>>> \o BlockPositions(blocks, b, p + 1)

\* labelMap: -1 where the map has no entry
EmptyLabelMap == [l \in FnLabelIds |-> -1]
\* std::map::insert keeps the entry the key already has
labelMapInsert(labelMap, index, last) ==
  IF labelMap[index] = -1 THEN [labelMap EXCEPT ![index] = last] ELSE labelMap

\* first foreachInstruction of sortLabels: number the labels, replace each LABEL
RECURSIVE PatchLabels(_, _, _, _)
PatchLabels(st, labelMap, last, todo) ==
  IF todo = <<>> THEN [st |-> st, labelMap |-> labelMap, last |-> last]
  ELSE LET id == st.blocks[todo[1][1]][todo[1][2]]
           insn == st.insn[id]
       IN IF insn.opcode # "OP_LABEL"
            THEN PatchLabels(st, labelMap, last, Tail(todo))
            ELSE Then(Replace(st, LABEL(last), id), LAMBDA s :
                   PatchLabels(s, labelMapInsert(labelMap, insn.index, last), last + 1, Tail(todo)))

\* the branch keeps its old index
newIndexStale(labelMap, index) == index
\* labelMap.find(index)->second
newIndexOf(labelMap, index) == labelMap[index]

\* second foreachInstruction of sortLabels: replace each BRA by one on the new index
RECURSIVE PatchBranches(_, _, _)
PatchBranches(st, labelMap, todo) ==
  IF todo = <<>> THEN st
  ELSE LET id == st.blocks[todo[1][1]][todo[1][2]]
           insn == st.insn[id]
       IN IF insn.opcode # "OP_BRA"
            THEN PatchBranches(st, labelMap, Tail(todo))
            ELSE Then(Replace(st, BRA(newIndexOf(labelMap, insn.index), insn.predicated), id),
                      LAMBDA s : PatchBranches(s, labelMap, Tail(todo)))

\* labels.resize(last)
ResizeLabels(labels, last) == [i \in 1 .. last |-> IF i <= Len(labels) THEN labels[i] ELSE 0]

\* foreachBlock of sortLabels: labels[index of the block's first instruction] = &bb
RECURSIVE ResetLabels(_, _, _)
ResetLabels(st, labels, b) ==
  IF b > Len(st.blocks) THEN labels
  ELSE ResetLabels(st, [labels EXCEPT ![st.insn[st.blocks[b][1]].index + 1] = b], b + 1)

\* Function::sortLabels: the blocks, the pool and the label table it leaves
SortLabels(st, labels) ==
  LET p1 == PatchLabels(st, EmptyLabelMap, 0, BlockPositions(st.blocks, 1, 1))
      s2 == PatchBranches(p1.st, p1.labelMap, BlockPositions(p1.st.blocks, 1, 1))
  IN [blocks |-> s2.blocks, insn |-> s2.insn,
      labels |-> ResetLabels(s2, ResizeLabels(labels, p1.last), 1),
      labelMap |-> p1.labelMap]

\* the function as Context leaves it: every block opens with its own label, the
\* labels come from newLabel, and a branch names a label that some block carries
FnBodyKinds(labelOf) ==
  {OtherInsn} \cup {BRA(labelOf[b], pr) : b \in 1 .. Len(labelOf), pr \in BOOLEAN}
FnBodies(labelOf) ==
  {<<>>} \cup {<<k>> : k \in FnBodyKinds(labelOf)}
    \cup {<<OtherInsn, k>> : k \in FnBodyKinds(labelOf)}
FnLabelings ==
  UNION {{l \in [1 .. n -> FnLabelIds] : \A a, b \in 1 .. n : a # b => l[a] # l[b]} :
           n \in 1 .. NumFnBlocks}

\* the lists and the pool of a function whose block b is <<LABEL labelOf[b]>> \o body[b]
RECURSIVE BuildBlocks(_, _, _, _)
BuildBlocks(st, labelOf, body, b) ==
  IF b > Len(labelOf) THEN st
  ELSE LET withLabel == BlockAppend(st, b, LABEL(labelOf[b]))
           with1 == IF Len(body[b]) >= 1 THEN BlockAppend(withLabel, b, body[b][1]) ELSE withLabel
           with2 == IF Len(body[b]) >= 2 THEN BlockAppend(with1, b, body[b][2]) ELSE with1
       IN BuildBlocks(with2, labelOf, body, b + 1)

EmptyFn(n) == [blocks |-> [b \in 1 .. n |-> <<>>], insn |-> [id \in FnIds |-> NoInsn]]

\* Function::labels as Context::LABEL fills it: the block of each placed label
LabelTable(labelOf) ==
  [i \in 1 .. NumFnLabels |->
     IF \E b \in 1 .. Len(labelOf) : labelOf[b] = i - 1
       THEN CHOOSE b \in 1 .. Len(labelOf) : labelOf[b] = i - 1 ELSE 0]

\* instructions of a function made of these labels and bodies
RECURSIVE BodyInsnNum(_, _)
BodyInsnNum(body, b) == IF b > Len(body) THEN 0 ELSE 1 + Len(body[b]) + BodyInsnNum(body, b + 1)

NoOp == [name |-> "none", block |-> 0, pos |-> 0, new |-> 0, other |-> 0, renamed |-> FALSE, label |-> 0]

FnInit ==
  \E labelOf \in FnLabelings :
    \E body \in [1 .. Len(labelOf) -> FnBodies(labelOf)] :
      /\ BodyInsnNum(body, 1) < MaxFnInsns
      /\ LET st == BuildBlocks(EmptyFn(Len(labelOf)), labelOf, body, 1)
         IN /\ fnBlocks = st.blocks
            /\ fnInsn = st.insn
            /\ fnLabels = LabelTable(labelOf)
            /\ fnOp = NoOp
            /\ fnSucc = [b \in 1 .. Len(labelOf) |-> {}]
            /\ fnPred = [b \in 1 .. Len(labelOf) |-> {}]

FnState == [blocks |-> fnBlocks, insn |-> fnInsn]
FnLive == {id \in FnIds : fnInsn[id].live}
\* the instructions a pass may append, put in place of another, or take out
FnNewInsns ==
  {OtherInsn} \cup {BRA(fnInsn[fnBlocks[b][1]].index, pr) : b \in 1 .. Len(fnBlocks), pr \in BOOLEAN}
FnBodyIds == {id \in FnLive : fnInsn[id].opcode # "OP_LABEL"}

\* BasicBlock::append
append ==
  /\ Cardinality(FnLive) + 1 < MaxFnInsns
  /\ \E b \in 1 .. Len(fnBlocks), new \in FnNewInsns :
       /\ Len(fnBlocks[b]) < MaxBlockLen
       /\ LET st == BlockAppend(FnState, b, new)
          IN /\ fnBlocks' = st.blocks
             /\ fnInsn' = st.insn
             /\ fnOp' = [NoOp EXCEPT !.name = "append", !.block = b,
                           !.pos = Len(fnBlocks[b]) + 1, !.new = newInstruction(fnInsn)]
  /\ UNCHANGED <<fnLabels, fnSucc, fnPred, wfVars, schedVars, compVars, laneVars, raVars, trackVars, progVars>>

\* Instruction::replace
replace ==
  /\ \E other \in FnBodyIds, new \in FnNewInsns :
       LET st == Replace(FnState, new, other)
           b == BlockHolding(fnBlocks, other)
       IN /\ fnBlocks' = st.blocks
          /\ fnInsn' = st.insn
          /\ fnOp' = [NoOp EXCEPT !.name = "replace", !.block = b,
                        !.pos = PositionOf(fnBlocks[b], other),
                        !.new = newInstruction(fnInsn), !.other = other]
  /\ UNCHANGED <<fnLabels, fnSucc, fnPred, wfVars, schedVars, compVars, laneVars, raVars, trackVars, progVars>>

\* Instruction::remove
remove ==
  /\ \E id \in FnBodyIds :
       LET st == Remove(FnState, id)
       IN /\ fnBlocks' = st.blocks
          /\ fnInsn' = st.insn
          /\ fnOp' = [NoOp EXCEPT !.name = "remove", !.block = BlockHolding(fnBlocks, id),
                        !.pos = PositionOf(fnBlocks[BlockHolding(fnBlocks, id)], id), !.other = id]
  /\ UNCHANGED <<fnLabels, fnSucc, fnPred, wfVars, schedVars, compVars, laneVars, raVars, trackVars, progVars>>

\* Function::sortLabels
sortLabels ==
  /\ LET r == SortLabels(FnState, fnLabels)
     IN /\ fnBlocks' = r.blocks
        /\ fnInsn' = r.insn
        /\ fnLabels' = r.labels
        /\ fnOp' = [NoOp EXCEPT !.name = "sortLabels",
                      !.renamed = (\E l \in FnLabelIds : r.labelMap[l] # -1 /\ r.labelMap[l] # l)]
  /\ UNCHANGED <<fnSucc, fnPred, wfVars, schedVars, compVars, laneVars, raVars, trackVars, progVars>>

\* Function::newLabel: the table grows by one NULL entry (0 for NULL) and the
\* index of that entry is returned. The code accepts up to 0xffff labels; the
\* table is followed up to MaxLabelTable entries.
newLabel ==
  /\ Len(fnLabels) < MaxLabelTable
  /\ fnLabels' = Append(fnLabels, 0)
  /\ fnOp' = [NoOp EXCEPT !.name = "newLabel", !.label = Len(fnLabels)]
  /\ UNCHANGED <<fnBlocks, fnInsn, fnSucc, fnPred, wfVars, schedVars, compVars, laneVars, raVars, trackVars, progVars>>

\* isMemberOf<BranchInstruction>: the branches and the returns
isBranchInstruction(insn) == insn.opcode \in {"OP_BRA", "OP_RET"}

\* successors.insert / predecessors.insert of one edge
InsertEdge(cfg, from, to) ==
  [cfg EXCEPT !.succ[from] = @ \cup {to}, !.pred[to] = @ \cup {from}]

\* this->blocks[label]: the block at that position of the block list; past the
\* end of the vector the read gives any pointer ("wild": a block, or 0 for NULL)
TargetBlock(st, label, wild) ==
  IF label < Len(st.blocks) THEN label + 1 ELSE wild

\* the second foreachBlock of computeCFG, from block b on; cfg.jumpToNext is 0
\* for NULL and cfg.ok falls when GBE_ASSERT(target != NULL) stops the pass
RECURSIVE ComputeEdges(_, _, _, _)
ComputeEdges(st, cfg, b, wild) ==
  IF b > Len(st.blocks) \/ ~cfg.ok THEN cfg
  ELSE LET c1 == IF cfg.jumpToNext # 0
                   THEN [InsertEdge(cfg, cfg.jumpToNext, b) EXCEPT !.jumpToNext = 0]
                   ELSE cfg
           last == st.insn[st.blocks[b][Len(st.blocks[b])]]
           target == TargetBlock(st, last.index, wild)
       IN IF Len(st.blocks[b]) = 0 THEN ComputeEdges(st, c1, b + 1, wild)
          ELSE IF ~isBranchInstruction(last)
            THEN ComputeEdges(st, [c1 EXCEPT !.jumpToNext = b], b + 1, wild)
          ELSE IF last.opcode = "OP_BRA"
            THEN IF target = 0 THEN [c1 EXCEPT !.ok = FALSE]
                 ELSE ComputeEdges(st, [InsertEdge(c1, b, target) EXCEPT
                                          !.jumpToNext = IF last.predicated THEN b ELSE 0],
                                   b + 1, wild)
          ELSE ComputeEdges(st, c1, b + 1, wild)

\* the first foreachBlock of computeCFG: every set is cleared
ClearedCFG(n) ==
  [succ |-> [b \in 1 .. n |-> {}], pred |-> [b \in 1 .. n |-> {}], jumpToNext |-> 0, ok |-> TRUE]

\* Function::computeCFG
computeCFG ==
  /\ \E wild \in 0 .. Len(fnBlocks) :
       LET r == ComputeEdges(FnState, ClearedCFG(Len(fnBlocks)), 1, wild)
       IN /\ fnSucc' = r.succ
          /\ fnPred' = r.pred
          /\ fnOp' = [NoOp EXCEPT !.name = IF r.ok THEN "computeCFG" ELSE "computeCFGStopped"]
  /\ UNCHANGED <<fnBlocks, fnInsn, fnLabels, wfVars, schedVars, compVars, laneVars, raVars, trackVars, progVars>>

FnIdle ==
  /\ fnBlocks = <<>>
  /\ fnInsn = [id \in FnIds |-> NoInsn]
  /\ fnLabels = <<>>
  /\ fnOp = NoOp
  /\ fnSucc = <<>>
  /\ fnPred = <<>>

(***************************************************************************)
(* Register allocation (spec 4.4, doc "Register allocation"): the vectors  *)
(* of the block are taken largest first and given contiguous ranges of the *)
(* register file, a vector that is a contiguous sub-range of an allocated  *)
(* one is not allocated again; the other registers are then placed by a    *)
(* linear scan of their live intervals over a free list, and the           *)
(* allocation fails when the file has no room.  Every register takes one   *)
(* slot of the file and has one location.  The same register may be used   *)
(* in different vectors (doc): the contiguity of the later vector is then  *)
(* met around the location the register has, or the allocation fails       *)
(* (spec 7: the arena cannot satisfy the vector-contiguity demands).       *)
(***************************************************************************)
NumVRegs == 4      \* virtual registers of the block
FileSize == 4      \* slots of the largest physical register file
MaxVectors == 2    \* most Selection Vectors of the block
MaxVecLen == 3     \* most registers of one Selection Vector
MaxTime == 2       \* last instruction of the block

VRegs == 1 .. NumVRegs
Slots == 0 .. FileSize - 1
Unassigned == 0 - 1

VecRange(v) == {v[k] : k \in 1 .. Len(v)}
\* v is w[i+1 .. i+Len(v)] for some i
IsSubRange(v, w) ==
  /\ Len(v) <= Len(w)
  /\ \E i \in 0 .. Len(w) - Len(v) : \A k \in 1 .. Len(v) : w[i + k] = v[k]

\* the Selection Vectors a block may ask for: any tuples of registers; the same
\* register may be used in different vectors
VectorShapes == UNION {[1 .. n -> VRegs] : n \in 2 .. MaxVecLen}
VectorLists == UNION {[1 .. n -> VectorShapes] : n \in 0 .. MaxVectors}
\* the registers the vectors of a list name
VectorRegs(vecs) == UNION {VecRange(vecs[i]) : i \in 1 .. Len(vecs)}
Intervals == {iv \in (1 .. MaxTime) \X (1 .. MaxTime) : iv[1] <= iv[2]}

\* indices of the vectors of the given length, in list order
VectorsOfLen(vecs, n) == SelectSeq([i \in 1 .. Len(vecs) |-> i], LAMBDA i : Len(vecs[i]) = n)

\* the vectors taken smallest first
RECURSIVE SmallestFirst(_, _)
SmallestFirst(vecs, n) ==
  IF n > MaxVecLen THEN <<>> ELSE VectorsOfLen(vecs, n) \o SmallestFirst(vecs, n + 1)
sortVectorsSmallestFirst(vecs) == SmallestFirst(vecs, 1)

RECURSIVE LargestFirst(_, _)
LargestFirst(vecs, n) ==
  IF n < 1 THEN <<>> ELSE VectorsOfLen(vecs, n) \o LargestFirst(vecs, n - 1)
\* the vectors sorted from the largest to the smallest
sortVectors(vecs) == LargestFirst(vecs, MaxVecLen)

\* no register occurs twice in the vector
Distinct(v) == \A a, b \in 1 .. Len(v) : a # b => v[a] # v[b]
\* a register of the vector has a location already (it is used in a vector
\* allocated before), or occurs twice in it
Interferes(st, v) == ~Distinct(v) \/ \E k \in 1 .. Len(v) : st.loc[v[k]] # Unassigned
\* bases at which the vector can lie in declared order: a register that has a
\* location keeps it, the others take free slots
VectorBases(st, v) ==
  {b \in Slots :
     /\ Distinct(v)
     /\ \A k \in 1 .. Len(v) :
          IF st.loc[v[k]] = Unassigned THEN b + k - 1 \in st.free
          ELSE st.loc[v[k]] = b + k - 1}
Lowest(S) == CHOOSE x \in S : \A y \in S : x <= y

\* vector resolution: one vector after the other, in sorted order.  giveUp[i]
\* tells what the allocator does when vector i interferes with a vector
\* allocated before: fail, or meet the contiguity where that is possible
RECURSIVE ResolveVectors(_, _, _, _)
ResolveVectors(st, vecs, order, giveUp) ==
  IF order = <<>> \/ st.failed THEN st
  ELSE LET i == order[1]
           v == vecs[i]
       IN IF \E j \in st.allocated : IsSubRange(v, vecs[j])
            THEN ResolveVectors(st, vecs, Tail(order), giveUp)
            ELSE IF VectorBases(st, v) = {} \/ (Interferes(st, v) /\ giveUp[i])
              THEN [st EXCEPT !.failed = TRUE]
              ELSE LET b == Lowest(VectorBases(st, v))
                   IN ResolveVectors(
                        [loc |-> [r \in VRegs |->
                                    IF r \in VecRange(v)
                                      THEN b + (CHOOSE k \in 1 .. Len(v) : v[k] = r) - 1
                                      ELSE st.loc[r]],
                         free |-> st.free \ {b + k : k \in 0 .. Len(v) - 1},
                         allocated |-> st.allocated \cup {i},
                         failed |-> FALSE],
                        vecs, Tail(order), giveUp)

\* the registers left to the linear scan, by increasing start of their interval
RECURSIVE ScanOrder(_, _, _)
ScanOrder(regs, ival, t) ==
  IF t > MaxTime THEN <<>>
  ELSE SelectSeq([r \in 1 .. NumVRegs |-> r], LAMBDA r : r \in regs /\ ival[r][1] = t)
         \o ScanOrder(regs, ival, t + 1)

\* an interval is over once the scan has reached its end
expiredEarly(iv, start) == iv[2] <= start
\* an interval is over when it ends before the one being placed starts
expired(iv, start) == iv[2] < start

\* two live intervals have an instruction in common
Overlap(a, b) == a[1] <= b[2] /\ b[1] <= a[2]

\* live intervals are computed for the registers that are in no vector; a
\* register of a vector holds its place over the whole block
RaInit ==
  /\ raVecs \in VectorLists
  /\ raIval \in {iv \in [VRegs -> Intervals] :
                   \A r \in VectorRegs(raVecs) : iv[r] = <<1, MaxTime>>}
  /\ raSize \in (FileSize - 1) .. FileSize
  /\ raLoc = [r \in VRegs |-> Unassigned]
  /\ raFree = 0 .. raSize - 1
  /\ raAllocated = {}
  /\ raWork = <<>>
  /\ raActive = {}
  /\ raPc = "vectors"

\* step (a): vector resolution
allocateVector ==
  /\ raPc = "vectors"
  /\ \E giveUp \in [1 .. Len(raVecs) -> BOOLEAN] :
       LET st == ResolveVectors([loc |-> raLoc, free |-> raFree, allocated |-> {}, failed |-> FALSE],
                                raVecs, sortVectors(raVecs), giveUp)
           rest == VRegs \ VectorRegs(raVecs)
       IN /\ raLoc' = st.loc
          /\ raFree' = st.free
          /\ raAllocated' = st.allocated
          /\ raWork' = IF st.failed THEN <<>> ELSE ScanOrder(rest, raIval, 1)
          /\ raPc' = IF st.failed THEN "failed" ELSE IF rest = {} THEN "done" ELSE "scan"
  /\ UNCHANGED <<raVecs, raIval, raActive, raSize, irVars, schedVars, compVars, laneVars, trackVars, progVars>>

\* step (b): the linear scan places the next register
allocateRegister ==
  /\ raPc = "scan"
  /\ LET r == Head(raWork)
         gone == {q \in raActive : expired(raIval[q], raIval[r][1])}
         free == raFree \cup {raLoc[q] : q \in gone}
     IN IF free = {}
          THEN /\ raPc' = "failed"
               /\ UNCHANGED <<raLoc, raFree, raActive, raWork>>
          ELSE /\ raLoc' = [raLoc EXCEPT ![r] = Lowest(free)]
               /\ raFree' = free \ {Lowest(free)}
               /\ raActive' = (raActive \ gone) \cup {r}
               /\ raWork' = Tail(raWork)
               /\ raPc' = IF Tail(raWork) = <<>> THEN "done" ELSE "scan"
  /\ UNCHANGED <<raVecs, raIval, raAllocated, raSize, irVars, schedVars, compVars, laneVars, trackVars, progVars>>

RaIdle ==
  /\ raVecs = <<>>
  /\ raIval = <<>>
  /\ raLoc = <<>>
  /\ raFree = {}
  /\ raAllocated = {}
  /\ raWork = <<>>
  /\ raActive = {}
  /\ raPc = "idle"
  /\ raSize = 0

(***************************************************************************)
(* DependencyTracker::getIndex applied to one operand.                     *)
(***************************************************************************)
MaxFlagNr == 8     \* flag register numbers 0 .. MaxFlagNr are handed to getIndex
MaxSubNr == 2      \* flag sub-register numbers 0 .. MaxSubNr are handed to getIndex

\* a memory access, known to the tracker by its binding table index
MemAccess(bti) == [file |-> "MEM", physical |-> FALSE, arf |-> "none", nr |-> 0,
                   subnr |-> 0, reg |-> bti]
\* GenRegister::acc() with another register number
AccRegNr(nr) == [AccReg EXCEPT !.nr = nr]

\* the operands of a block: the registers of the selection before allocation,
\* the GRFs after it, the flag and accumulator registers, the memory accesses
TrOperands(pol) ==
  {Grf(r) : r \in Regs}
  \cup (IF pol = "POST_ALLOC" THEN {Grf(GrfNum(pol, 8) - 1)} ELSE {})
  \cup {FlagReg(nr, sub) : nr \in 0 .. MaxFlagNr, sub \in 0 .. MaxSubNr}
  \cup {AccRegNr(nr) : nr \in 0 .. MAX_ACC_REGISTER}
  \cup {MemAccess(bti) : bti \in {GlobalBTI, LocalBTI}}

\* the GBE_ASSERTs of getIndex(GenRegister) hold for the operand
getIndexAsserts(reg) ==
  IF reg.physical
    THEN /\ reg.file = "ARF"
         /\ IF reg.arf = "flag"
              THEN reg.nr < MAX_FLAG_REGISTER /\ reg.subnr \div 2 \in {0, 1}
            ELSE IF reg.arf = "acc" THEN reg.nr < MAX_ACC_REGISTER
            ELSE FALSE
    ELSE TRUE

TrInit ==
  /\ trPolicy \in {"PRE_ALLOC", "POST_ALLOC"}
  /\ trWidth \in {8, 16}
  /\ trReg \in TrOperands(trPolicy)
  /\ trIndex = -1
  /\ trPc = "new"
  /\ trDebug \in BOOLEAN

\* a GBE_ASSERT of getIndex stops the program: only in a build with
\* GBE_DEBUG=1, with GBE_DEBUG=0 the assertions are compiled out
getIndexStops(reg, debug) == debug /\ ~getIndexAsserts(reg)

\* getIndex(GenRegister) or getIndex(bti) on the operand
trackerGetIndex ==
  /\ trPc = "new"
  /\ IF trReg.file = "MEM"
       THEN /\ trIndex' = getIndexBti(trReg.reg, trPolicy, trWidth)
            /\ trPc' = "indexed"
     ELSE IF ~getIndexStops(trReg, trDebug)
       THEN /\ trIndex' = getIndex(trReg, trPolicy, trWidth)
            /\ trPc' = "indexed"
     ELSE /\ trPc' = "asserted"
          /\ UNCHANGED trIndex
  /\ UNCHANGED <<trReg, trPolicy, trWidth, trDebug>>
  /\ UNCHANGED <<schedVars, compVars, laneVars, irVars, raVars, progVars>>

TrIdle ==
  /\ trReg = Imm
  /\ trPolicy = "PRE_ALLOC"
  /\ trWidth = 8
  /\ trIndex = -1
  /\ trPc = "idle"
  /\ trDebug = TRUE

(***************************************************************************)
(* Program: the kernels of a program and the lookup of one by its ID.      *)
(***************************************************************************)
MaxKernels == 3    \* most kernels of a program

\* the kernels of a program in the iteration order of the map, each entry a
\* different kernel
KernelMaps ==
  UNION {{k \in [1 .. n -> 1 .. MaxKernels] : \A a, b \in 1 .. n : a # b => k[a] # k[b]} :
           n \in 0 .. MaxKernels}

\* Program::getKernelNum
getKernelNum(kernels) == Len(kernels)

\* the loop of Program::getKernel(ID) from entry "at" of the map on: currID is
\* compared with ID at every entry
RECURSIVE getKernelLoop(_, _, _, _)
getKernelLoop(kernels, at, currID, ID) ==
  IF at > Len(kernels) THEN 0
  ELSE IF currID = ID THEN kernels[at]
  ELSE getKernelLoop(kernels, at + 1, currID, ID)

\* Program::getKernel(uint32_t ID)
getKernel(kernels, ID) == getKernelLoop(kernels, 1, 0, ID)

ProgInit ==
  /\ progKernels \in KernelMaps
  /\ progID \in 0 .. MaxKernels
  /\ progKernel = 0
  /\ progNum = 0
  /\ progPc = "new"

\* getKernelNum() and getKernel(ID) on the program
programGetKernel ==
  /\ progPc = "new"
  /\ progNum' = getKernelNum(progKernels)
  /\ progKernel' = getKernel(progKernels, progID)
  /\ progPc' = "returned"
  /\ UNCHANGED <<progKernels, progID>>
  /\ UNCHANGED <<schedVars, compVars, laneVars, irVars, raVars, trackVars>>

ProgIdle ==
  /\ progKernels = <<>>
  /\ progID = 0
  /\ progKernel = 0
  /\ progNum = 0
  /\ progPc = "idle"

\* the retry loop and the lanes at rest, for the specifications that do not run them
CompIdle ==
  /\ fnSimdWidth = 0
  /\ entryWidth = 0
  /\ codeGen = 0
  /\ codeGenNum = 0
  /\ kernel = 0
  /\ tried = <<>>
  /\ compilable = {}
  /\ gbeDebug = TRUE
  /\ calls = 0
  /\ cpc = "idle"

LaneIdle ==
  /\ succ = <<>>
  /\ blockIP = <<>>
  /\ cur = 0
  /\ mask = {}
  /\ lastExec = <<>>
  /\ lpc = "done"

SchedIdle ==
  /\ insns = <<>>
  /\ insnList = <<>>
  /\ origList = <<>>
  /\ nodeInsn = <<>>
  /\ refNum = <<>>
  /\ children = <<>>
  /\ retiredCycle = <<>>
  /\ ready = <<>>
  /\ active = <<>>
  /\ cycle = 0
  /\ insnNum = 0
  /\ policy = "PRE_ALLOC"
  /\ simdWidth = 8
  /\ preSwitch = TRUE
  /\ postSwitch = TRUE
  /\ spc = "done"

IrIdle == WfIdle /\ FnIdle

Init == SchedInit /\ CompIdle /\ LaneIdle /\ IrIdle /\ RaIdle /\ TrIdle /\ ProgIdle

Next ==
  \/ schedulePreRegAllocation
  \/ scheduleDAG
  \/ schedulePostRegAllocation

Spec == Init /\ [][Next]_vars

\* the retry loop alone
CompNext ==
  \/ compileKernelEntry
  \/ compileKernelAttempt
  \/ compileKernelExhausted
  \/ compileKernelReturn

\* the lanes alone
LaneNext ==
  \/ blockHead
  \/ blockBody

InitLanes == SchedIdle /\ CompIdle /\ LaneInit /\ IrIdle /\ RaIdle /\ TrIdle /\ ProgIdle

SpecLanes == InitLanes /\ [][LaneNext]_vars

InitCompile == SchedIdle /\ CompInit /\ LaneIdle /\ IrIdle /\ RaIdle /\ TrIdle /\ ProgIdle

\* wellFormed alone
WfNext == wellFormedCheck

InitWellFormed == SchedIdle /\ CompIdle /\ LaneIdle /\ WfInit /\ FnIdle /\ RaIdle /\ TrIdle /\ ProgIdle

SpecWellFormed == InitWellFormed /\ [][WfNext]_vars

SpecCompile == InitCompile /\ [][CompNext]_vars

\* the function and its blocks alone
FnNext ==
  \/ append
  \/ replace
  \/ remove
  \/ sortLabels
  \/ newLabel

InitFunction == SchedIdle /\ CompIdle /\ LaneIdle /\ WfIdle /\ FnInit /\ RaIdle /\ TrIdle /\ ProgIdle

SpecFunction == InitFunction /\ [][FnNext]_vars

\* a function that is built up, normalised and whose CFG is computed, in any order
CfgNext ==
  \/ append
  \/ sortLabels
  \/ newLabel
  \/ computeCFG

SpecCFG == InitFunction /\ [][CfgNext]_vars

\* the register allocator alone
RaNext ==
  \/ allocateVector
  \/ allocateRegister

InitAlloc == SchedIdle /\ CompIdle /\ LaneIdle /\ IrIdle /\ RaInit /\ TrIdle /\ ProgIdle

SpecAlloc == InitAlloc /\ [][RaNext]_vars

InitTracker == SchedIdle /\ CompIdle /\ LaneIdle /\ IrIdle /\ RaIdle /\ TrInit /\ ProgIdle
SpecTracker == InitTracker /\ [][trackerGetIndex]_vars

InitProgram == SchedIdle /\ CompIdle /\ LaneIdle /\ IrIdle /\ RaIdle /\ TrIdle /\ ProgInit
SpecProgram == InitProgram /\ [][programGetKernel]_vars

(***************************************************************************)
(* Vocabulary of the scheduling claims.  Node k of the running (or last)   *)
(* pass wraps the instruction origList[k]; insnList is what was emitted.   *)
(***************************************************************************)
Emitted(x) == \E i \in 1 .. Len(insnList) : insnList[i] = x
Pos(x) == CHOOSE i \in 1 .. Len(insnList) : insnList[i] = x
OrigInsn(k) == insns[origList[k]]
\* x was emitted, and y was not emitted before it
EmittedInOrder(x, y) == Emitted(x) /\ (Emitted(y) => Pos(x) < Pos(y))
PassFinished == spc \in {"post", "done"} /\ Len(insnList) = Len(origList)

\* the resources an operand names: the register, flag sub-register or accumulator
ResOf(reg) ==
  IF reg.file = "IMM" \/ (reg.file = "ARF" /\ reg.arf = "null") THEN {}
  ELSE IF reg.file = "ARF" THEN {<<reg.arf, reg.nr, reg.subnr>>}
  ELSE {<<"grf", reg.reg, 0>>}
FlagRes(insn) ==
  IF insn.physicalFlag THEN {<<"flag", insn.flag, 2 * insn.subFlag>>}
  ELSE {<<"grf", insn.flagIndex, 0>>}
MemRes(bti) == {<<"mem", IF bti = LocalBTI THEN LOCAL_MEMORY ELSE GLOBAL_MEMORY, 0>>}
BothMem == MemRes(LocalBTI) \cup MemRes(GlobalBTI)
Reads(insn) ==
  UNION {ResOf(insn.src[i]) : i \in 1 .. Len(insn.src)}
  \cup (IF insn.predicate THEN FlagRes(insn) ELSE {})
  \cup (IF isRead(insn) THEN MemRes(insn.function) ELSE {})
  \cup (IF isSync(insn) THEN BothMem ELSE {})
Writes(insn) ==
  UNION {ResOf(insn.dst[i]) : i \in 1 .. Len(insn.dst)}
  \cup (IF insn.opcode = "CMP" THEN FlagRes(insn) ELSE {})
  \cup (IF insn.accWrEnable THEN {<<"acc", 0, 0>>} ELSE {})
  \cup (IF isWrite(insn) THEN MemRes(insn.function) ELSE {})
  \cup (IF isSync(insn) THEN BothMem ELSE {})
\* the instructions that transfer or end control
IsControl(insn) == insn.opcode \in {"JMPI", "LABEL", "EOT"}
\* b, later in the block than a, depends on a
Conflict(a, b) ==
  \/ Writes(a) \cap Reads(b) # {}
  \/ Writes(a) \cap Writes(b) # {}
  \/ Reads(a) \cap Writes(b) # {}

\* C1: under either policy the emitted order respects every dependency of the
\* block: an instruction that reads or writes a register, flag, accumulator or
\* memory resource an earlier instruction of the block wrote, or writes one it
\* read, is never emitted before that instruction.
C1_OrderRespectsDependencies ==
  \A i, j \in 1 .. Len(origList) :
    (i < j /\ Conflict(OrigInsn(i), OrigInsn(j)) /\ Emitted(origList[j]))
      => EmittedInOrder(origList[i], origList[j])

\* a finished pass that moved instructions of a block holding a dependency between
\* two instructions that are not barriers
C1_Witness ==
  /\ PassFinished
  /\ insnList # origList
  /\ \E i, j \in 1 .. Len(origList) :
       /\ i < j
       /\ Conflict(OrigInsn(i), OrigInsn(j))
       /\ ~IsControl(OrigInsn(i))
       /\ ~IsControl(OrigInsn(j))
       /\ Pos(origList[i]) < Pos(origList[j])

\* C2: a branch, label or end-of-program instruction is a full barrier: whatever
\* precedes it in the block is emitted before it, whatever follows it after it.
C2_BarrierKeepsPlace ==
  \A p \in 1 .. Len(origList) :
    IsControl(OrigInsn(p)) =>
      /\ \A i \in 1 .. (p - 1) :
           Emitted(origList[p]) => EmittedInOrder(origList[i], origList[p])
      /\ \A j \in (p + 1) .. Len(origList) :
           Emitted(origList[j]) => EmittedInOrder(origList[p], origList[j])

\* a finished pass over a block with a branch strictly inside it, which reordered
\* the instructions around it
C2_Witness ==
  /\ PassFinished
  /\ insnList # origList
  /\ \E p \in 2 .. (Len(origList) - 1) :
       isBranch(OrigInsn(p)) /\ Pos(origList[p]) = p

\* C3: a pass only reorders the block: nothing is emitted twice while it runs and,
\* once it is over, the list holds exactly the instructions it held before.
C3_OnlyReorders ==
  /\ \A a, b \in 1 .. Len(insnList) : insnList[a] = insnList[b] => a = b
  /\ \A a \in 1 .. Len(insnList) : \E k \in 1 .. Len(origList) : origList[k] = insnList[a]
  /\ spc \in {"post", "done"} =>
       /\ Len(insnList) = Len(origList)
       /\ \A k \in 1 .. Len(origList) : Emitted(origList[k])

\* a finished pass that changed the order
C3_Witness ==
  /\ spc = "done"
  /\ postSwitch
  /\ insnList # origList

\* what is left to do: passes, then instructions, then cycles below the cap
PhaseRank == CASE spc = "pre" -> 4 [] spc = "preLoop" -> 3 [] spc = "post" -> 2
               [] spc = "postLoop" -> 1 [] OTHER -> 0
Remaining ==
  PhaseRank * (MaxInsn + 2) * (CycleCap + 1) + insnNum * (CycleCap + 1) + (CycleCap - cycle)

\* C4: the scheduling loop ends, and it ends only when the whole block was
\* emitted: while instructions remain the ready and the active list are never
\* both empty (the loop can take a step), every step brings the end nearer, and
\* a pass is left only with every instruction of the block emitted.
C4_LoopTerminates ==
  /\ [](spc \in {"preLoop", "postLoop"} =>
          /\ insnNum > 0
          /\ insnNum + Len(insnList) = Len(origList)
          /\ (ready # <<>> \/ active # <<>>)
          /\ cycle < CycleCap - 1)
  /\ [][Remaining' < Remaining /\ Remaining' >= 0]_vars
  /\ [](spc \in {"post", "done"} => Len(insnList) = Len(origList))

\* a post-allocation pass that had to wait for instructions to retire and ended
C4_Witness ==
  /\ spc = "done"
  /\ postSwitch
  /\ insnNum = 0
  /\ cycle > 2 * Len(origList)

\* C8: each pass has its own switch, and a pass that is switched off leaves the
\* block's instruction list as it is, whatever the other switch says.
C8_DisabledPassKeepsOrder ==
  [][/\ (spc = "pre" /\ ~preSwitch) => (insnList' = insnList /\ spc' = "post")
     /\ (spc = "post" /\ ~postSwitch) => (insnList' = insnList /\ spc' = "done")
     /\ (spc = "pre" /\ preSwitch) => (insnList' = <<>> /\ policy' = "PRE_ALLOC")
     /\ (spc = "post" /\ postSwitch) => (insnList' = <<>> /\ policy' = "POST_ALLOC")]_vars

\* the pre-allocation pass reordered the block and the disabled post-allocation
\* pass left that order alone
C8_Witness ==
  /\ spc = "done"
  /\ preSwitch
  /\ ~postSwitch
  /\ policy = "PRE_ALLOC"
  /\ insnList # [i \in 1 .. Len(insnList) |-> i]
  /\ Len(insnList) = MaxInsn + 1

(***************************************************************************)
(* Claims about the retry loop.                                            *)
(***************************************************************************)
\* the order the strategies are documented to be tried in
StrategyOrder == <<<<16, FALSE>>, <<16, TRUE>>, <<8, FALSE>>, <<8, TRUE>>>>
TriedStrategy(i) == <<codeGenStrategy[tried[i]].simdWidth,
                      codeGenStrategy[tried[i]].limitRegisterPressure>>
Succeeds(k) == k \in compilable

\* C5: with no pinned width the strategies are tried in the order (16, unlimited),
\* (16, limited), (8, unlimited), (8, limited); the next one is tried only after
\* the current one failed, the first success ends the loop, and the loop gives up
\* only after all four failed.
C5_FixedStrategyOrder ==
  (entryWidth = 0 /\ cpc # "idle") =>
    /\ Len(tried) <= 4
    /\ \A i \in 1 .. Len(tried) : TriedStrategy(i) = StrategyOrder[i]
    /\ \A i \in 1 .. (Len(tried) - 1) : ~Succeeds(tried[i])
    /\ (tried # <<>> /\ Succeeds(tried[Len(tried)])) =>
         (cpc \in {"check", "returned"} /\ kernel = tried[Len(tried)] + 1)
    /\ (cpc \in {"check", "returned", "aborted"} /\ kernel = 0) =>
         (Len(tried) = 4 /\ \A i \in 1 .. 4 : ~Succeeds(tried[i]))

\* both width-16 strategies failed and the kernel was compiled at width 8
C5_Witness ==
  /\ entryWidth = 0
  /\ cpc = "returned"
  /\ tried = <<0, 1, 2>>
  /\ kernel = 3

\* C6: when the width is pinned on entry, every strategy attempted has that
\* width; no strategy of the other width is attempted.
C6_PinnedWidthOnly ==
  entryWidth # 0 =>
    \A i \in 1 .. Len(tried) : codeGenStrategy[tried[i]].simdWidth = entryWidth

\* a kernel pinned to width 16 for which both width-16 strategies were attempted
C6_Witness ==
  /\ entryWidth = 16
  /\ calls = 1
  /\ Len(tried) = 2
  /\ cpc = "check"

\* C7: compileKernel either returns the kernel of the first strategy that
\* succeeded or fails hard; it never returns without a kernel.
C7_KernelOrHardFailure ==
  /\ cpc = "returned" =>
       /\ kernel # 0
       /\ tried # <<>>
       /\ kernel = tried[Len(tried)] + 1
       /\ Succeeds(tried[Len(tried)])
       /\ \A i \in 1 .. (Len(tried) - 1) : ~Succeeds(tried[i])
  /\ cpc = "aborted" => kernel = 0

(***************************************************************************)
(* Claims about the block IPs.                                             *)
(***************************************************************************)
\* C10: only lanes whose block IP is at most the block's identifier at the head
\* of the block run its instructions; a lane whose block IP exceeds it is masked
\* off for the whole block and leaves it untouched.
C10_OnlyActivatedLanesRun ==
  /\ \A l \in lastExec.executed : lastExec.before[l] <= lastExec.block
  /\ \A l \in Lanes :
       lastExec.before[l] > lastExec.block =>
         (l \notin lastExec.executed /\ lastExec.after[l] = lastExec.before[l])
  /\ lpc = "body" => \A l \in mask : blockIP[l] <= cur

\* a block was run by one lane while another, whose block IP lies beyond it,
\* stayed masked off
C10_Witness ==
  \E l, m \in Lanes :
    /\ l \in lastExec.executed
    /\ m \notin lastExec.executed
    /\ lastExec.before[m] > lastExec.block

(***************************************************************************)
(* Claims about wellFormed.                                                *)
(***************************************************************************)
WfChecked == wpc = "checked"
\* the registers the tuple of an instruction names, those inside the table
TupleRegs(insn, n) ==
  [v \in 1 .. n |-> IF insn.tuple + v - 1 < tupleNum THEN IrTuples[insn.tuple + v] ELSE -1]
\* the destination registers of an instruction
Destinations(insn) ==
  {insn.dst[i] : i \in 1 .. Len(insn.dst)}
  \cup (IF insn.kind = "Load"
          THEN {TupleRegs(insn, insn.valueNum)[v] : v \in 1 .. insn.valueNum} \ {-1}
        ELSE {})
\* the operand registers of an instruction, each with the family its opcode and
\* type require: <<register, family>>
RequiredFamilies(insn) ==
  LET family == getFamily(insn.type)
      values == {<<TupleRegs(insn, insn.valueNum)[v], family>> : v \in 1 .. insn.valueNum}
  IN CASE insn.kind \in {"Unary", "Binary"} ->
            {<<insn.dst[1], family>>} \cup {<<insn.src[i], family>> : i \in 1 .. Len(insn.src)}
       [] insn.kind = "Compare" ->
            {<<insn.dst[1], "FAMILY_BOOL">>, <<insn.src[1], family>>, <<insn.src[2], family>>}
       [] insn.kind = "Convert" ->
            {<<insn.dst[1], family>>, <<insn.src[1], getFamily(insn.srcType)>>}
       [] insn.kind = "Select" ->
            {<<insn.dst[1], family>>, <<TupleRegs(insn, 3)[1], "FAMILY_BOOL">>,
             <<TupleRegs(insn, 3)[2], family>>, <<TupleRegs(insn, 3)[3], family>>}
       [] insn.kind \in {"Load", "Store"} ->
            values \cup {<<insn.offset, getPointerFamily>>}
       [] insn.kind = "LoadImm" -> {<<insn.dst[1], family>>}
       [] insn.kind = "Branch" ->
            IF insn.hasPredicate THEN {<<insn.predicate, "FAMILY_BOOL">>} ELSE {}
       [] OTHER -> {}
\* the operand is a register of the function and has the family
OperandMatches(rf) == rf[1] >= 0 /\ rf[1] < regNum /\ IrRegFamily(rf[1]) = rf[2]
\* a tuple, label or immediate index of the instruction is out of range
IndexOutOfRange(insn) ==
  \/ insn.kind = "Select" /\ insn.tuple + 3 > tupleNum
  \/ insn.kind \in {"Load", "Store"} /\ insn.tuple + insn.valueNum > tupleNum
  \/ insn.kind = "Label" /\ insn.index >= labelNum
  \/ insn.kind = "Branch" /\ insn.hasLabel /\ insn.index >= labelNum
  \/ insn.kind = "LoadImm" /\ insn.index >= immediateNum

\* C11: wellFormed accepts an instruction only if each of its source and
\* destination registers is a register of the function and has the family the
\* opcode and the type require (the address of a load or store: the pointer
\* family).
C11_AcceptedOperandsMatch ==
  (WfChecked /\ wfOk /\ ~IndexOutOfRange(irInsn)) =>
    \A rf \in RequiredFamilies(irInsn) : OperandMatches(rf)

\* C12: an instruction with a tuple range, a label index or an immediate index
\* out of range is refused with a reason, and no table of the function is read
\* outside its bounds on the way.
C12_OutOfRangeRejected ==
  (WfChecked /\ IndexOutOfRange(irInsn)) => (~wfOk /\ wfWhy # "" /\ ~wfOob)

NotWriteable == "Non stack pointer special registers are not writeable"
WritesReserved(insn, profile) ==
  \E r \in Destinations(insn) : isSpecialReg(profile, r) /\ r # oclStackptr

\* C13: an instruction of any opcode that has a special register other than the
\* stack pointer among its destinations is refused; the stack pointer as a
\* destination is not a reason to refuse.
C13_SpecialRegsNotWritten ==
  WfChecked =>
    /\ WritesReserved(irInsn, irProfile) => ~wfOk
    /\ (~WritesReserved(irInsn, irProfile) /\ ~wfOob) => wfWhy # NotWriteable

\* a load whose first destination is a special register, refused for it, and the
\* stack pointer among the destinations of an accepted one are both in the pool:
\* here the refused load
C13_Witness ==
  /\ WfChecked
  /\ irInsn.kind = "Load"
  /\ irProfile = "PROFILE_OCL"
  /\ WritesReserved(irInsn, irProfile)
  /\ ~IndexOutOfRange(irInsn)
  /\ wfWhy = NotWriteable

SyncFlags == {SYNC_WORKGROUP_EXEC, SYNC_LOCAL_READ_FENCE, SYNC_LOCAL_WRITE_FENCE,
              SYNC_GLOBAL_READ_FENCE, SYNC_GLOBAL_WRITE_FENCE}
RECURSIVE SumOf(_)
SumOf(S) == IF S = {} THEN 0 ELSE LET x == CHOOSE y \in S : TRUE IN x + SumOf(S \ {x})
\* the word is the OR of a non-empty set of the five flags
NonEmptyScope(word) == \E S \in SUBSET SyncFlags : S # {} /\ SumOf(S) = word

\* C14: a sync instruction is accepted exactly when its parameter word is a
\* non-empty subset of the five scope flags; zero and anything beyond them is
\* refused.
C14_SyncScopeChecked ==
  (WfChecked /\ irInsn.kind = "Sync") =>
    /\ wfOk <=> NonEmptyScope(irInsn.parameters)
    /\ irInsn.parameters = 0 => ~wfOk
    /\ irInsn.parameters > maxParams => ~wfOk

\* a sync instruction with a bit beyond the five flags was refused
C14_Witness ==
  /\ WfChecked
  /\ irInsn.kind = "Sync"
  /\ irInsn.parameters = 2 * SYNC_GLOBAL_WRITE_FENCE
  /\ wfWhy = "Invalid parameters for sync instruction"

(***************************************************************************)
(* Labels and ownership of instructions (ir/function.cpp, Instruction::    *)
(* replace and remove)                                                     *)
(***************************************************************************)
\* the (block, position) pairs of a block list
Places(blocks) == {<<b, p>> \in (1 .. Len(blocks)) \X (1 .. MaxBlockLen) : p <= Len(blocks[b])}

\* the block that carries the label: the one whose first instruction is LABEL index
BlockOfLabel(blocks, pool, index) ==
  CHOOSE b \in 1 .. Len(blocks) :
    pool[blocks[b][1]].opcode = "OP_LABEL" /\ pool[blocks[b][1]].index = index

\* block b opens with LABEL b-1 and holds no other label; the table sends b-1 to b
DenseLabels(blocks, pool, labels) ==
  /\ Len(labels) = Len(blocks)
  /\ \A b \in 1 .. Len(blocks) :
       /\ labels[b] = b
       /\ \A p \in 1 .. Len(blocks[b]) :
            (pool[blocks[b][p]].opcode = "OP_LABEL") <=> (p = 1)
       /\ pool[blocks[b][1]].index = b - 1

\* what a sortLabels step leaves, against what it found
SortLabelsPost ==
  /\ DenseLabels(fnBlocks', fnInsn', fnLabels')
  /\ \A pl \in Places(fnBlocks) :
       LET before == fnInsn[fnBlocks[pl[1]][pl[2]]]
           after == fnInsn'[fnBlocks'[pl[1]][pl[2]]]
       IN before.opcode = "OP_BRA" =>
            /\ after.opcode = "OP_BRA"
            /\ after.predicated = before.predicated
            /\ after.index \in 0 .. Len(fnLabels') - 1
            /\ fnLabels'[after.index + 1] = BlockOfLabel(fnBlocks, fnInsn, before.index)

\* C15: when sortLabels returns, block b carries label b-1 (labels exactly 0..n-1
\* in block order, one per block) and every branch names the label of the block
\* it targeted before the call.
C15_SortLabelsDense ==
  [][fnOp'.name = "sortLabels" => SortLabelsPost]_vars

\* sortLabels has renumbered at least one label of a two-block function that
\* holds a branch
C15_Witness ==
  /\ fnOp.name = "sortLabels"
  /\ fnOp.renamed
  /\ Len(fnBlocks) = 2
  /\ \E pl \in Places(fnBlocks) : fnInsn[fnBlocks[pl[1]][pl[2]]].opcode = "OP_BRA"

\* C16: every live instruction is held by exactly one block list, once, and its
\* recorded parent is that block; replace(other) leaves the new instruction at
\* other's place in other's block and other in no block.
C16_OneBlockPerInstruction ==
  /\ \A id \in FnIds :
       fnInsn[id].live <=>
         (\E pl \in Places(fnBlocks) : fnBlocks[pl[1]][pl[2]] = id)
  /\ \A id \in FnIds :
       fnInsn[id].live =>
         /\ Cardinality({pl \in Places(fnBlocks) : fnBlocks[pl[1]][pl[2]] = id}) = 1
         /\ fnInsn[id].parent = BlockHolding(fnBlocks, id)
  /\ fnOp.name = "replace" =>
       /\ fnBlocks[fnOp.block][fnOp.pos] = fnOp.new
       /\ fnInsn[fnOp.new].parent = fnOp.block
       /\ ~\E b \in 1 .. Len(fnBlocks) : Holds(fnBlocks[b], fnOp.other)
       /\ ~fnInsn[fnOp.other].live

\* an instruction in the middle of a block of three has just been replaced
C16_Witness ==
  /\ fnOp.name = "replace"
  /\ fnOp.pos = 2
  /\ Len(fnBlocks[fnOp.block]) = 3
  /\ fnBlocks[fnOp.block][2] = fnOp.new
  /\ fnInsn[fnOp.new].live

(***************************************************************************)
(* Register allocation (spec 4.4)                                          *)
(***************************************************************************)
\* the registers of vector v lie in consecutive slots, in declared order
Contiguous(v) ==
  \A k \in 1 .. Len(v) :
    /\ raLoc[v[k]] \in 0 .. raSize - 1
    /\ raLoc[v[k]] = raLoc[v[1]] + k - 1

C18_NoOverlap ==
  /\ \A p, q \in VRegs :
       (raPc # "idle" /\ p # q /\ raLoc[p] # Unassigned /\ raLoc[q] # Unassigned
          /\ Overlap(raIval[p], raIval[q])) => raLoc[p] # raLoc[q]
  /\ raPc = "done" => \A r \in VRegs : raLoc[r] \in 0 .. raSize - 1

\* the scan has put a register on the slot of one whose interval was over
C18_Witness ==
  /\ raPc = "done"
  /\ \E p, q \in VRegs : p # q /\ raLoc[p] = raLoc[q] /\ ~Overlap(raIval[p], raIval[q])
  /\ \E p, q \in VRegs : p # q /\ Overlap(raIval[p], raIval[q])

(***************************************************************************)
(* Claims about barriers, waits and the pre-allocation policy.             *)
(***************************************************************************)
\* the instruction reads or writes the local or the global memory
TouchesMemory(insn) == isRead(insn) \/ isWrite(insn)

\* C19: a barrier or wait is a full memory barrier: an instruction that reads or
\* writes local or global memory and precedes it in the block is emitted before
\* it, one that follows it is emitted after it.
C19_SyncOrdersMemory ==
  \A p \in 1 .. Len(origList) :
    isSync(OrigInsn(p)) =>
      /\ \A i \in 1 .. (p - 1) :
           (TouchesMemory(OrigInsn(i)) /\ Emitted(origList[p]))
             => EmittedInOrder(origList[i], origList[p])
      /\ \A j \in (p + 1) .. Len(origList) :
           (TouchesMemory(OrigInsn(j)) /\ Emitted(origList[j]))
             => EmittedInOrder(origList[p], origList[j])

\* a finished pass moved instructions of the block and still emitted the local
\* write before the barrier that follows it
C19_Witness ==
  /\ PassFinished
  /\ insnList # origList
  /\ \E i, p \in 1 .. Len(origList) :
       /\ i < p
       /\ isWrite(OrigInsn(i)) /\ OrigInsn(i).function = LocalBTI
       /\ isSync(OrigInsn(p))
       /\ Pos(origList[i]) < Pos(origList[p])

\* nodes whose last dependency went away in the step
Released == {n \in 1 .. Len(refNum) : refNum[n] > 0 /\ refNum'[n] = 0}

\* C20: under the pre-allocation policy every iteration emits an instruction while
\* the clock stays at zero: the dependents of the instruction emitted before are
\* pushed on the ready list first, and the instruction emitted is the one on top
\* of it (the most recently made ready).
C20_PreAllocLifoZeroCycle ==
  [][spc = "preLoop" =>
       LET stack == ready' \o <<insnList'[Len(insnList')]>>
       IN /\ cycle = 0 /\ cycle' = 0
          /\ Len(insnList') = Len(insnList) + 1
          /\ Len(stack) >= Len(ready)
          /\ SubSeq(stack, 1, Len(ready)) = ready
          /\ {stack[k] : k \in (Len(ready) + 1) .. Len(stack)} = Released
          /\ Len(stack) = Len(ready) + Cardinality(Released)
          /\ active' = <<stack[Len(stack)]>>
          /\ retiredCycle'[stack[Len(stack)]] = 0]_vars

\* the pre-allocation pass is running with two instructions emitted and two more
\* ready on the stack
C20_Witness ==
  /\ spc = "preLoop"
  /\ cycle = 0
  /\ Len(insnList) = 2
  /\ Len(ready) = 2
  /\ insnList[2] # origList[2]

(***************************************************************************)
(* Claims about the ready list.                                            *)
(***************************************************************************)
InSeq(q, x) == \E i \in 1 .. Len(q) : q[i] = x
\* the node was emitted
EmittedNode(n) == Emitted(nodeInsn[n])
\* the step emits an instruction
Emits == Len(insnList') = Len(insnList) + 1
\* the node whose instruction the step emits
EmittedNow == CHOOSE n \in 1 .. Len(nodeInsn) : nodeInsn[n] = insnList'[Len(insnList')]

\* C21: under the post-allocation policy an iteration that finds the ready list
\* non-empty once the retired instructions released their dependents emits the
\* node at its head, the one that entered it first; only an empty ready list
\* makes the clock tick instead.
C21_PostAllocFifo ==
  [][spc = "postLoop" =>
       IF ready = <<>> /\ Released = {}
         THEN insnList' = insnList /\ cycle' = cycle + 1
         ELSE /\ Emits
              /\ LET queue == <<EmittedNow>> \o ready'
                 IN /\ Len(queue) = Len(ready) + Cardinality(Released)
                    /\ SubSeq(queue, 1, Len(ready)) = ready
                    /\ {queue[k] : k \in (Len(ready) + 1) .. Len(queue)} = Released]_vars

\* the post-allocation pass has emitted two instructions, waited at least one
\* cycle and holds two ready nodes
C21_Witness ==
  /\ spc = "postLoop"
  /\ Len(insnList) >= 2
  /\ Len(ready) >= 2
  /\ cycle >= 1

\* the DAG of the running pass, and the nodes a node depends on in it
PassDag == buildDAG([k \in 1 .. Len(nodeInsn) |-> insns[nodeInsn[k]]], policy, simdWidth)
Parents(dag, n) == {m \in 1 .. Len(nodeInsn) : InSeq(dag.children[m], n)}
\* the nodes that enter the ready list in the step
Entered ==
  {n \in 1 .. Len(nodeInsn') :
     /\ InSeq(ready', n) \/ (Emits /\ nodeInsn'[n] = insnList'[Len(insnList')])
     /\ ~(spc \in {"preLoop", "postLoop"} /\ InSeq(ready, n))}

\* the ready list holds each node at most once, with refNum zero, not yet emitted
ReadyListSound ==
  spc \in {"preLoop", "postLoop"} =>
    /\ \A n \in 1 .. Len(refNum) : refNum[n] >= 0
    /\ \A a, b \in 1 .. Len(ready) : ready[a] = ready[b] => a = b
    /\ \A a \in 1 .. Len(ready) : refNum[ready[a]] = 0 /\ ~EmittedNode(ready[a])
\* an iteration of scheduleDAG puts on the list only nodes whose refNum it brought
\* to zero and whose parents were all emitted and retired
ReadyEntryInLoop ==
  (spc \in {"preLoop", "postLoop"} /\ Entered # {}) =>
    LET dag == PassDag
    IN \A n \in Entered :
         /\ ~EmittedNode(n)
         /\ refNum[n] > 0 /\ refNum'[n] = 0
         /\ Parents(dag, n) # {}
         /\ \A m \in Parents(dag, n) : EmittedNode(m) /\ ~InSeq(active', m)
\* buildDAG puts on the list only nodes that depend on nothing
ReadyEntryAtStart ==
  spc \in {"pre", "post"} =>
    \A n \in Entered :
      refNum'[n] = 0 /\ ~\E m \in 1 .. Len(children') : InSeq(children'[m], n)

\* C22: a node is on the ready list at most once and only with refNum zero, it
\* enters the list when its refNum reaches zero, after every node it depends on
\* was emitted and left the active list, it never enters again, and refNum never
\* goes below zero.
C22_ReadyOnceAtZero ==
  /\ []ReadyListSound
  /\ [][ReadyEntryInLoop]_vars
  /\ [][ReadyEntryAtStart]_vars

\* the instruction emitted last depends on two instructions that are not barriers:
\* its node was released by the second of them to retire
C22_Witness ==
  /\ spc # "pre"
  /\ Len(insnList) >= 3
  /\ \E i, j \in 1 .. Len(origList) :
       /\ i < j /\ origList[j] # insnList[Len(insnList)]
       /\ Emitted(origList[i]) /\ Emitted(origList[j])
       /\ ~IsControl(OrigInsn(i)) /\ ~IsControl(OrigInsn(j))
       /\ ~Conflict(OrigInsn(i), OrigInsn(j))
       /\ Conflict(OrigInsn(i), insns[insnList[Len(insnList)]])
       /\ Conflict(OrigInsn(j), insns[insnList[Len(insnList)]])

(***************************************************************************)
(* Further claims about the retry loop.                                    *)
(***************************************************************************)
\* the strategies of a width, in table order
StrategiesOf(width) == {k \in 0 .. 3 : codeGenStrategy[k].simdWidth = width}
LoopLeft == cpc \in {"check", "returned", "aborted"}

\* C24: a call that found the width pinned leaves the loop without a kernel only
\* after it attempted both strategies of that width, the unlimited one first, and
\* both failed; if one of them can allocate, the call ends with a kernel of the
\* pinned width.
C24_PinnedTriesBoth ==
  (entryWidth # 0 /\ LoopLeft) =>
    /\ kernel = 0 =>
         /\ Len(tried) = 2
         /\ {tried[i] : i \in 1 .. Len(tried)} = StrategiesOf(entryWidth)
         /\ ~codeGenStrategy[tried[1]].limitRegisterPressure
    /\ (\E k \in StrategiesOf(entryWidth) : Succeeds(k)) =>
         /\ kernel # 0
         /\ codeGenStrategy[kernel - 1].simdWidth = entryWidth

\* C25: when compileKernel is over the function holds the SIMD width it held when
\* the call was entered, so that the next call on the same kernel starts from the
\* same width.
C25_WidthRestored ==
  cpc \in {"returned", "aborted"} => fnSimdWidth = entryWidth

(***************************************************************************)
(* Claims about the control-flow graph.                                    *)
(***************************************************************************)
LastOf(b) == fnInsn[fnBlocks[b][Len(fnBlocks[b])]]
\* the label a block carries: the index of the LABEL it opens with
LabelCarried(b) == fnInsn[fnBlocks[b][1]].index
\* the control-flow edges of the function
BranchEdge(b, t) ==
  /\ fnBlocks[b] # <<>>
  /\ LastOf(b).opcode = "OP_BRA"
  /\ fnBlocks[t] # <<>>
  /\ LastOf(b).index = LabelCarried(t)
FallThroughEdge(b, t) ==
  /\ fnBlocks[b] # <<>>
  /\ ~(LastOf(b).opcode = "OP_BRA" /\ ~LastOf(b).predicated)
  /\ LastOf(b).opcode # "OP_RET"
  /\ t = b + 1
LabelsInBlockOrder == \A b \in 1 .. Len(fnBlocks) : LabelCarried(b) = b - 1

\* C26: when computeCFG is done, T is a successor of B exactly if B ends with a
\* branch to the label T carries or B falls through to T, the block after it,
\* and T is a successor of B exactly if B is a predecessor of T.
C26_ExactEdges ==
  fnOp.name = "computeCFG" =>
    \A b, t \in 1 .. Len(fnBlocks) :
      /\ t \in fnSucc[b] <=> (BranchEdge(b, t) \/ FallThroughEdge(b, t))
      /\ t \in fnSucc[b] <=> b \in fnPred[t]

\* the same for a function whose labels are numbered in block order
ExactEdgesWhenSorted ==
  (fnOp.name = "computeCFG" /\ LabelsInBlockOrder) =>
    \A b, t \in 1 .. Len(fnBlocks) :
      /\ t \in fnSucc[b] <=> (BranchEdge(b, t) \/ FallThroughEdge(b, t))
      /\ t \in fnSucc[b] <=> b \in fnPred[t]

(***************************************************************************)
(* Claims about the edges of the DAG.                                      *)
(***************************************************************************)
\* the pass has built its DAG and scheduled nothing yet
DagFresh == spc \in {"preLoop", "postLoop"} /\ insnList = <<>>
\* the nodes that hold n among their children
DirectParents(n) == {m \in 1 .. Len(children) : InSeq(children[m], n)}

\* C27: in the DAG buildDAG leaves, no node is twice among the children of
\* another, and the refNum of a node is the number of distinct nodes it depends
\* on directly.
C27_OneEdgePerPair ==
  DagFresh =>
    /\ \A m \in 1 .. Len(children) :
         \A a, b \in 1 .. Len(children[m]) : a # b => children[m][a] # children[m][b]
    /\ \A n \in 1 .. Len(refNum) : refNum[n] = Cardinality(DirectParents(n))

(***************************************************************************)
(* Claims about the types wellFormed accepts.                              *)
(***************************************************************************)
\* C28: an instruction of a math-function opcode whose type is not float is
\* refused by wellFormed.
C28_MathNeedsFloat ==
  (WfChecked /\ irInsn.opcode \in FloatOnlyOps /\ irInsn.type # "FLOAT") => ~wfOk

(***************************************************************************)
(* Claims about the resource indices.                                      *)
(***************************************************************************)
TrGrfNum == GrfNum(trPolicy, trWidth)

\* C29: the index of an operand that passes the assertions of getIndex is an
\* index of the last-writer array and lies in the range of its class: registers
\* in [0, grfNum), flag sub-registers in [grfNum, grfNum+8), the accumulator at
\* grfNum+8, the global memory at grfNum+9 and the local memory at grfNum+10.
C29_IndexInClassRange ==
  (trPc = "indexed" /\ (trReg.file = "MEM" \/ getIndexAsserts(trReg))) =>
    /\ trIndex >= 0 /\ trIndex < NodesSize(trPolicy, trWidth)
    /\ trReg.file = "GRF" => trIndex < TrGrfNum
    /\ (trReg.file = "ARF" /\ trReg.arf = "flag") =>
         (trIndex >= TrGrfNum /\ trIndex < TrGrfNum + MAX_FLAG_REGISTER)
    /\ (trReg.file = "ARF" /\ trReg.arf = "acc") => trIndex = TrGrfNum + MAX_FLAG_REGISTER
    /\ (trReg.file = "MEM" /\ trReg.reg = GlobalBTI) =>
         trIndex = TrGrfNum + MAX_FLAG_REGISTER + MAX_ACC_REGISTER
    /\ (trReg.file = "MEM" /\ trReg.reg = LocalBTI) =>
         trIndex = TrGrfNum + MAX_FLAG_REGISTER + MAX_ACC_REGISTER + 1

(***************************************************************************)
(* Claims about the program.                                               *)
(***************************************************************************)
\* C30: getKernel(ID) returns the kernel of entry ID of the map for an ID below
\* getKernelNum(), so a different kernel for each such ID, and NULL for any
\* other ID.
C30_GetKernelByID ==
  progPc = "returned" =>
    /\ progNum = Len(progKernels)
    /\ progID < progNum => progKernel = progKernels[progID + 1]
    /\ progID >= progNum => progKernel = 0

====
